---------------------------- MODULE Spec2Model ----------------------------
(***************************************************************************)
(* Verification model of the QCalibration transpiler pipeline:             *)
(*   - gate normaliser   (circuitNormalization/internal_normalization_*.py)*)
(*   - basis mapper      (circuitNormalization/basis_mapping.py)           *)
(*   - routers           (transpilationAlgorithms/*.py)                    *)
(*                                                                         *)
(* Qubit indices are 0-based as in the source; operation lists are TLA+    *)
(* sequences (1-based).  Rotation angles are kept symbolic (strings).      *)
(***************************************************************************)
EXTENDS Integers, Sequences, FiniteSets, TLC

(***************************************************************************)
(* Bounds of the model.                                                    *)
(***************************************************************************)
\* longest input circuit given to the normaliser / basis mapper
MaxNormOps == 2
\* longest input circuit given to a router
MaxOps == 2
\* largest number of logical qubits of a routed circuit
MaxLogical == 3
\* largest number of physical qubits of a topology
NumPhys == 4
\* largest per-gate budget (max_swaps_per_gate) handed to a router
MaxBudget == 2
\* longest chain of single-qubit gates before a routed gate
MaxChain == 28
\* qubits of the circuits that hold two blocked gates at once
WideQubits == 4

VARIABLES
    \* ---- normaliser / basis mapper ----
    circuit,          \* operations of the circuit handed to normalise / map
    target_basis,     \* target_basis argument of map_to_basis
    normalized,       \* result of normalize_circuit(circuit)
    renormalized,     \* result of normalize_circuit(normalize_circuit(circuit))
    mapped,           \* result of map_to_basis(circuit, target_basis)
    \* ---- routers: inputs ----
    alg,              \* which router runs
    numQubits,        \* topology.numQubits
    coupling_map,     \* topology.coupling_map, a set of pairs <<u, v>>
    basisGates,       \* topology.basisGates
    calibrationData,  \* topology.calibrationData.gates (<<>> when there is none)
    num_qubits,       \* qc.num_qubits
    operations,       \* qc.operations
    max_swaps_per_gate, \* the per-gate budget argument of sabre / calibration-aware
    \* ---- routers: working state ----
    pc,               \* position of the router
    embedding,        \* logical -> physical map (initial; sabre, cal: current)
    physical_pos,     \* naive, dynamic: current logical -> physical map
    logical_at_physical, \* physical -> logical view (naive, dynamic)
    out,              \* transpiled_qc.operations
    op_idx,           \* index of the operation being processed (naive, dynamic)
    path,             \* path being walked (naive, dynamic)
    step,             \* loop index i of the walk (naive, dynamic)
    current_physical, \* position of the moving logical qubit during a walk
    saved,            \* naive: saved_physical_pos / saved_logical_at_physical
    executed,         \* sabre, calibration-aware: executed flags
    swaps_per_gate,   \* sabre, calibration-aware: per-gate blocked counter
    iteration,        \* sabre, calibration-aware: main-loop iteration counter
    consecutive_swaps,\* sabre: consecutive iterations without an execution
    logical_swap_count, \* number of SWAPs inserted (gates_inserted)
    final_embedding,  \* the embedding the router returned
    result            \* what the router returned or raised

normVars == <<circuit, target_basis, normalized, renormalized, mapped>>
routeInputs == <<alg, numQubits, coupling_map, basisGates, calibrationData, num_qubits,
                 operations, max_swaps_per_gate>>
routeState == <<pc, embedding, physical_pos, logical_at_physical, out, op_idx,
                path, step, current_physical, saved, executed, swaps_per_gate,
                iteration, consecutive_swaps, logical_swap_count,
                final_embedding, result>>
vars == <<circuit, target_basis, normalized, renormalized, mapped,
          alg, numQubits, coupling_map, basisGates, calibrationData,
          num_qubits, operations,
          max_swaps_per_gate,
          pc, embedding, physical_pos, logical_at_physical, out, op_idx,
          path, step, current_physical, saved, executed, swaps_per_gate,
          iteration, consecutive_swaps, logical_swap_count,
          final_embedding, result>>

(***************************************************************************)
(* Generic helpers.                                                        *)
(***************************************************************************)
Range(s) == {s[i] : i \in 1..Len(s)}

\* all sequences over S of length 0..n
SeqsUpTo(S, n) == UNION {[1..k -> S] : k \in 0..n}

\* the value of "nothing yet"
None == "None"

(***************************************************************************)
(* IR: Operation                                                           *)
(***************************************************************************)
\* Operation(name, qubits, clbits, params, condition, metadata); body is the
\* extra field of the control-flow subclasses (names of the body operations).
Operation(name, qubits, clbits, params, condition, metadata) ==
    [name |-> name, qubits |-> qubits, clbits |-> clbits, params |-> params,
     condition |-> condition, metadata |-> metadata, body |-> <<>>]

ForLoop(body) ==
    [name |-> "for_loop", qubits |-> <<>>, clbits |-> <<>>, params |-> <<>>,
     condition |-> None, metadata |-> "{}", body |-> body]

\* str.lower() on the gate-name alphabet of the model
Lower(s) ==
    CASE s = "RX" -> "rx"
      [] s = "H" -> "h"
      [] s = "CX" -> "cx"
      [] s = "RZ" -> "rz"
      [] s = "SX" -> "sx"
      [] s = "CZ" -> "cz"
      [] s = "MEASURE" -> "measure"
      [] OTHER -> s


(***************************************************************************)
(* Results of a stage: either the produced operation list or the raised    *)
(* exception.                                                              *)
(***************************************************************************)
\* err is the class of the exception, gate the gate name and position the
\* index of the operation that its message holds (None when it holds none)
Ok(ops) == [err |-> None, gate |-> None, position |-> None, ops |-> ops]
\* the stage has not been called yet
NotCalled == [err |-> "not called", gate |-> None, position |-> None, ops |-> <<>>]
Returned(r) == r.err = None
Called(r) == r.err # "not called"
\* raise kind(f"... {op.name}"): the messages of the pipeline hold the gate
\* name and never the index of the operation
Raise(kind, gate) == [err |-> kind, gate |-> gate, position |-> None, ops |-> <<>>]

(***************************************************************************)
(* Gate normaliser                                                         *)
(***************************************************************************)
CONTROL_FLOW_OPS == {"measure", "barrier", "for_loop", "while_loop", "if_else"}

NORMALIZATION_BASIS_with_u3 == {"rx", "rz", "cx", "u3"}

NORMALIZATION_BASIS == {"rx", "rz", "cx"}

is_canonical(op) == Lower(op.name) \in NORMALIZATION_BASIS

\* variant of _copy_op that builds a fresh operation
_copy_op_fresh(name, qubits, params, original) ==
    Operation(name, qubits, <<>>, params, None, "{}")

\* helper that preserves metadata, clbits and condition of the original
_copy_op(name, qubits, params, original) ==
    Operation(name, qubits, original.clbits, params, original.condition,
              original.metadata)

\* the rewrite rules of normalize_operation, tried in the order of the source
rewrite_rules(op) ==
    LET name == Lower(op.name)
        q == op.qubits
        p == op.params
    IN  IF name = "x" THEN Ok(<<_copy_op("rx", q, <<"pi">>, op)>>)
        ELSE IF name = "z" THEN Ok(<<_copy_op("rz", q, <<"pi">>, op)>>)
        ELSE IF name = "h" THEN
            Ok(<<_copy_op("rz", q, <<"pi">>, op),
                 _copy_op("rx", q, <<"pi/2">>, op),
                 _copy_op("rz", q, <<"pi">>, op)>>)
        ELSE IF name = "y" THEN
            Ok(<<_copy_op("rz", q, <<"pi/2">>, op),
                 _copy_op("rx", q, <<"pi">>, op),
                 _copy_op("rz", q, <<"-pi/2">>, op)>>)
        ELSE IF name = "ry" THEN
            IF Len(p) = 0 THEN Raise("IndexError", op.name)
            ELSE Ok(<<_copy_op("rz", q, <<"-pi/2">>, op),
                      _copy_op("rx", q, <<p[1]>>, op),
                      _copy_op("rz", q, <<"pi/2">>, op)>>)
        ELSE IF name = "u3" THEN
            IF Len(p) # 3 THEN Raise("ValueError", op.name)
            ELSE Ok(<<_copy_op("rz", q, <<p[2]>>, op),
                      _copy_op("rx", q, <<p[1]>>, op),
                      _copy_op("rz", q, <<p[3]>>, op)>>)
        ELSE IF name = "cz" THEN
            IF Len(q) # 2 THEN Raise("ValueError", op.name)
            ELSE LET control == q[1]
                     target == q[2]
                 IN Ok(<<_copy_op("rz", <<target>>, <<"pi">>, op),
                         _copy_op("rx", <<target>>, <<"pi/2">>, op),
                         _copy_op("rz", <<target>>, <<"pi">>, op),
                         _copy_op("cx", <<control, target>>, <<>>, op),
                         _copy_op("rz", <<target>>, <<"pi">>, op),
                         _copy_op("rx", <<target>>, <<"pi/2">>, op),
                         _copy_op("rz", <<target>>, <<"pi">>, op)>>)
        ELSE IF name = "swap" THEN
            IF Len(q) # 2 THEN Raise("ValueError", op.name)
            ELSE LET q0 == q[1]
                     q1 == q[2]
                 IN Ok(<<_copy_op("cx", <<q0, q1>>, <<>>, op),
                         _copy_op("cx", <<q1, q0>>, <<>>, op),
                         _copy_op("cx", <<q0, q1>>, <<>>, op)>>)
        ELSE Raise("NotImplementedError", op.name)

\* variant of normalize_operation without the passthrough of canonical gates
normalize_operation_no_passthrough(op) == rewrite_rules(op)

normalize_operation(op) ==
    IF is_canonical(op) THEN Ok(<<op>>) ELSE rewrite_rules(op)

RECURSIVE normalize_operation_recursive(_)
RECURSIVE normalize_each(_, _, _)

\* the for-loop of normalize_operation_recursive over normalize_operation(op)
normalize_each(new_ops, i, normalized_acc) ==
    IF i > Len(new_ops) THEN Ok(normalized_acc)
    ELSE IF is_canonical(new_ops[i])
         THEN normalize_each(new_ops, i + 1, Append(normalized_acc, new_ops[i]))
         ELSE LET r == normalize_operation_recursive(new_ops[i])
              IN IF r.err # None THEN r
                 ELSE normalize_each(new_ops, i + 1, normalized_acc \o r.ops)

normalize_operation_recursive(op) ==
    LET r == normalize_operation(op)
    IN IF r.err # None THEN r ELSE normalize_each(r.ops, 1, <<>>)

RECURSIVE normalize_circuit_from(_, _, _)
\* the loop of normalize_circuit from operation idx on; new_ops are the
\* operations added to new_circuit so far
normalize_circuit_from(ops, idx, new_ops) ==
    IF idx > Len(ops) THEN Ok(new_ops)
    ELSE LET op == ops[idx]
         IN IF op.name \in CONTROL_FLOW_OPS
            THEN normalize_circuit_from(ops, idx + 1, Append(new_ops, op))
            ELSE LET lowered == normalize_operation_recursive(op)
                 IN IF lowered.err # None THEN lowered
                    ELSE normalize_circuit_from(ops, idx + 1, new_ops \o lowered.ops)

normalize_circuit(ops) == normalize_circuit_from(ops, 1, <<>>)


(***************************************************************************)
(* Basis mapper                                                            *)
(***************************************************************************)
\* _copy(op, name=None, qubits=None, params=None): "name or op.name",
\* "qubits or op.qubits", "params if params is not None else op.params".
\* An argument that the call leaves out is passed as "" (name), <<>>
\* (qubits) or SameParams (params).
SameParams == <<"op.params">>

_copy(op, name, qubits, params) ==
    Operation(IF name = "" THEN op.name ELSE name,
              IF qubits = <<>> THEN op.qubits ELSE qubits,
              op.clbits,
              IF params = SameParams THEN op.params ELSE params,
              op.condition, op.metadata)

\* variant of the H block in the order RZ(pi/2) SX SX
SxRzSx_rz_first(op, qubits) ==
    <<_copy(op, "rz", qubits, <<"pi/2">>),
      _copy(op, "sx", qubits, <<>>),
      _copy(op, "sx", qubits, <<>>)>>

\* the H = SX RZ(pi/2) SX block used by several branches
SxRzSx(op, qubits) ==
    <<_copy(op, "sx", qubits, <<>>),
      _copy(op, "rz", qubits, <<"pi/2">>),
      _copy(op, "sx", qubits, <<>>)>>

\* variant of the test of the H branch that asks for "sx" only
h_rule_applies_sx_only(basis) == "sx" \in basis

\* the test guarding the H = SX RZ(pi/2) SX branch
h_rule_applies(basis) == {"sx", "rz"} \subseteq basis

\* the if/elif chain of map_to_basis for one non-control-flow operation;
\* basis is the lower-cased target basis; the result is ops_to_add
map_operation(op, basis) ==
    LET name == Lower(op.name)
        qubits == op.qubits
        params == op.params
        theta == IF Len(params) > 0 THEN params[1] ELSE None
        same == Ok(<<_copy(op, "", <<>>, SameParams)>>)
        cannot == Raise("NotImplementedError", op.name)
    IN  CASE name = "h" ->
               IF "h" \in basis THEN same
               ELSE IF h_rule_applies(basis) THEN Ok(SxRzSx(op, <<>>))
               ELSE cannot
          [] name = "x" ->
               IF "x" \in basis THEN same
               ELSE IF "sx" \in basis
                    THEN Ok(<<_copy(op, "sx", <<>>, <<>>),
                              _copy(op, "sx", <<>>, <<>>)>>)
               ELSE cannot
          [] name = "z" ->
               IF "z" \in basis THEN same
               ELSE IF "rz" \in basis THEN Ok(<<_copy(op, "rz", <<>>, <<"pi">>)>>)
               ELSE cannot
          [] name = "y" ->
               IF "y" \in basis THEN same
               ELSE IF {"sx", "rz"} \subseteq basis
                    THEN Ok(<<_copy(op, "rz", <<>>, <<"-pi/2">>),
                              _copy(op, "sx", <<>>, <<>>),
                              _copy(op, "rz", <<>>, <<"pi/2">>),
                              _copy(op, "sx", <<>>, <<>>),
                              _copy(op, "rz", <<>>, <<"pi">>),
                              _copy(op, "sx", <<>>, <<>>),
                              _copy(op, "rz", <<>>, <<"pi/2">>),
                              _copy(op, "sx", <<>>, <<>>),
                              _copy(op, "rz", <<>>, <<"pi/2">>)>>)
               ELSE cannot
          [] name = "rx" ->
               IF "rx" \in basis THEN same
               ELSE IF {"sx", "rz"} \subseteq basis
                    THEN Ok(<<_copy(op, "sx", <<>>, <<>>),
                              _copy(op, "rz", <<>>, <<"pi/2">>),
                              _copy(op, "sx", <<>>, <<>>),
                              _copy(op, "rz", <<>>, <<theta>>),
                              _copy(op, "sx", <<>>, <<>>),
                              _copy(op, "rz", <<>>, <<"pi/2">>),
                              _copy(op, "sx", <<>>, <<>>)>>)
               ELSE cannot
          [] name = "ry" ->
               IF "ry" \in basis THEN same
               ELSE IF {"sx", "rz"} \subseteq basis
                    THEN Ok(<<_copy(op, "rz", <<>>, <<"-pi/2">>),
                              _copy(op, "sx", <<>>, <<>>),
                              _copy(op, "rz", <<>>, <<"pi/2">>),
                              _copy(op, "sx", <<>>, <<>>),
                              _copy(op, "rz", <<>>, <<theta>>),
                              _copy(op, "sx", <<>>, <<>>),
                              _copy(op, "rz", <<>>, <<"pi/2">>),
                              _copy(op, "sx", <<>>, <<>>),
                              _copy(op, "rz", <<>>, <<"pi/2">>)>>)
               ELSE cannot
          [] name = "rz" ->
               IF "rz" \in basis THEN same ELSE cannot
          [] name = "cx" ->
               IF Len(qubits) # 2 THEN Raise("ValueError", op.name)
               ELSE IF "cx" \in basis THEN same
               ELSE IF {"cz", "sx", "rz"} \subseteq basis
                    THEN LET c == qubits[1]
                             t == qubits[2]
                         IN Ok(SxRzSx(op, <<t>>)
                               \o <<_copy(op, "cz", <<c, t>>, <<>>)>>
                               \o SxRzSx(op, <<t>>))
               ELSE cannot
          [] name = "cz" ->
               IF "cz" \in basis THEN same ELSE cannot
          [] name = "swap" ->
               IF "swap" \in basis THEN same ELSE cannot
          [] OTHER ->
               IF name \in basis THEN same ELSE cannot

\* the gate sets under which the if/elif chain of map_to_basis rewrites a
\* gate name that is not in the target basis
decomposition_needs(name) ==
    CASE name \in {"h", "y", "rx", "ry"} -> {{"sx", "rz"}}
      [] name = "x" -> {{"sx"}}
      [] name = "z" -> {{"rz"}}
      [] name = "cx" -> {{"cz", "sx", "rz"}}
      [] OTHER -> {}

RECURSIVE map_to_basis_from_skipping(_, _, _, _)
\* variant of the loop of map_to_basis that emits a gate it cannot map as
\* it is
map_to_basis_from_skipping(ops, basis, idx, new_ops) ==
    IF idx > Len(ops) THEN Ok(new_ops)
    ELSE LET op == ops[idx]
         IN IF Lower(op.name) \in CONTROL_FLOW_OPS
            THEN map_to_basis_from_skipping(ops, basis, idx + 1, Append(new_ops, op))
            ELSE LET ops_to_add == map_operation(op, basis)
                 IN map_to_basis_from_skipping(ops, basis, idx + 1,
                        IF ops_to_add.err # None THEN Append(new_ops, op)
                        ELSE new_ops \o ops_to_add.ops)

RECURSIVE map_to_basis_from(_, _, _, _)
\* the loop of map_to_basis from operation idx on.  The last_time list of
\* the source is written but never read into the output and is left out.
map_to_basis_from(ops, basis, idx, new_ops) ==
    IF idx > Len(ops) THEN Ok(new_ops)
    ELSE LET op == ops[idx]
         IN IF Lower(op.name) \in CONTROL_FLOW_OPS
            THEN map_to_basis_from(ops, basis, idx + 1, Append(new_ops, op))
            ELSE LET ops_to_add == map_operation(op, basis)
                 IN IF ops_to_add.err # None THEN ops_to_add
                    ELSE map_to_basis_from(ops, basis, idx + 1,
                                           new_ops \o ops_to_add.ops)

map_to_basis(ops, target) ==
    map_to_basis_from(ops, {Lower(g) : g \in target}, 1, <<>>)


(***************************************************************************)
(* Inputs of the normaliser and the basis mapper                           *)
(***************************************************************************)
\* an operation as a parser builds it: no clbits, no condition, no metadata
Gate(name, qubits, params) == Operation(name, qubits, <<>>, params, None, "{}")

\* a classically conditioned operation that carries metadata
Tagged(name, qubits, params) ==
    Operation(name, qubits, <<0>>, params, "c==1", "{tag}")

NormInputOps ==
    {Gate(n, <<0>>, <<"theta">>) : n \in {"rx", "ry", "rz", "RX"}}
    \cup {Gate(n, <<0>>, <<>>) : n \in {"h", "s", "t", "x", "y", "z", "sx", "H", "reset"}}
    \cup {Gate(n, <<0, 1>>, <<>>) : n \in {"cx", "cz", "swap", "CX"}}
    \cup {Gate("u3", <<0>>, <<"theta", "phi", "lam">>),
          Gate("u3", <<0>>, <<"theta", "phi">>),
          Gate("toffoli", <<0, 1, 2>>, <<>>),
          Operation("measure", <<0>>, <<0>>, <<>>, None, "{}"),
          Operation("MEASURE", <<0>>, <<0>>, <<>>, None, "{}"),
          Gate("barrier", <<0, 1>>, <<>>),
          ForLoop(<<"u3">>)}
    \cup {Tagged("h", <<1>>, <<>>), Tagged("rx", <<1>>, <<"theta">>),
          Tagged("cx", <<1, 0>>, <<>>), Tagged("swap", <<1, 0>>, <<>>),
          Tagged("u3", <<1>>, <<"theta", "phi", "lam">>)}

NormCircuits == SeqsUpTo(NormInputOps, MaxNormOps)

\* target bases handed to map_to_basis
TargetBases ==
    {{}, {"sx"}, {"rz"}, {"sx", "rz"}, {"rz", "sx", "cz"}, {"RZ", "SX", "CZ"},
     {"rz", "sx", "cx", "x", "id"}, {"rx", "rz", "cx"},
     {"h", "s", "t", "x", "y", "z", "rx", "ry", "rz", "cx", "cz", "swap"}}

(***************************************************************************)
(* The stages as stand-alone calls                                         *)
(***************************************************************************)
RouteIdle ==
    /\ alg = None /\ numQubits = 0 /\ coupling_map = {} /\ basisGates = {}
    /\ calibrationData = <<>>
    /\ num_qubits = 0 /\ operations = <<>> /\ max_swaps_per_gate = 0
    /\ pc = "idle" /\ embedding = <<>> /\ physical_pos = <<>>
    /\ logical_at_physical = <<>>
    /\ out = <<>> /\ op_idx = 0 /\ path = <<>> /\ step = 0
    /\ current_physical = 0 /\ saved = <<>> /\ executed = <<>>
    /\ swaps_per_gate = <<>> /\ iteration = 0 /\ consecutive_swaps = 0
    /\ logical_swap_count = 0 /\ final_embedding = <<>> /\ result = NotCalled

InitNorm ==
    /\ circuit \in NormCircuits
    /\ target_basis = {}
    /\ normalized = NotCalled
    /\ renormalized = NotCalled
    /\ mapped = NotCalled
    /\ RouteIdle

\* normalized = normalize_circuit(circuit)
Normalise ==
    /\ ~Called(normalized)
    /\ normalized' = normalize_circuit(circuit)
    /\ UNCHANGED <<circuit, target_basis, renormalized, mapped>>

\* renormalized = normalize_circuit(normalized), when the first call returned
NormaliseAgain ==
    /\ Returned(normalized)
    /\ ~Called(renormalized)
    /\ renormalized' = normalize_circuit(normalized.ops)
    /\ UNCHANGED <<circuit, target_basis, normalized, mapped>>

\* mapped = map_to_basis(circuit, S)
MapToBasis ==
    /\ ~Called(mapped)
    /\ Called(normalized)
    /\ Returned(normalized) => Called(renormalized)
    /\ \E S \in TargetBases :
         /\ target_basis' = S
         /\ mapped' = map_to_basis(circuit, S)
    /\ UNCHANGED <<circuit, normalized, renormalized>>

NextNorm ==
    \/ Normalise /\ UNCHANGED <<routeInputs, routeState>>
    \/ NormaliseAgain /\ UNCHANGED <<routeInputs, routeState>>
    \/ MapToBasis /\ UNCHANGED <<routeInputs, routeState>>

SpecNorm == InitNorm /\ [][NextNorm]_vars

(***************************************************************************)
(* Properties of the normaliser and the basis mapper                       *)
(***************************************************************************)
\* the canonical gate set of the specification
CanonicalSet == {"rx", "ry", "rz", "h", "s", "t", "x", "y", "z", "cx", "cz"}

\* C1: when normalize_circuit returns, every operation of its result that is
\* not a control-flow pseudo-op (measure, barrier, for_loop, while_loop,
\* if_else) has a name (compared case-insensitively, as the IR does) in the
\* canonical set {rx, ry, rz, h, s, t, x, y, z, cx, cz}.
C1_NormalisedIsCanonical ==
    Returned(normalized) =>
        \A i \in 1..Len(normalized.ops) :
            normalized.ops[i].name \notin CONTROL_FLOW_OPS =>
                Lower(normalized.ops[i].name) \in CanonicalSet

\* a circuit with a rewritten gate (u3), a recursively rewritten pair and a
\* control-flow op has been normalised
C1_Witness ==
    /\ Returned(normalized)
    /\ Len(circuit) = 2
    /\ circuit[1].name = "u3" /\ circuit[2].name = "measure"
    /\ Len(normalized.ops) = 4

\* C2: when map_to_basis(c, S) returns, every operation of the result has a
\* lower-cased name in the lower-cased S, or is a control-flow pseudo-op that
\* was passed through.
C2_MappedInTarget ==
    Returned(mapped) =>
        \A i \in 1..Len(mapped.ops) :
            \/ Lower(mapped.ops[i].name) \in {Lower(g) : g \in target_basis}
            \/ Lower(mapped.ops[i].name) \in CONTROL_FLOW_OPS

\* a canonical circuit h; cx has been decomposed into {rz, sx, cz}
C2_Witness ==
    /\ Returned(mapped)
    /\ target_basis = {"rz", "sx", "cz"}
    /\ Len(circuit) = 2
    /\ circuit[1].name = "h" /\ circuit[2].name = "cx"
    /\ Len(mapped.ops) = 10

\* C7: when normalize_circuit(c) returns, normalize_circuit applied to its
\* result returns too, with the same operation sequence (names, qubits,
\* params, clbits, condition, metadata, order).
C7_NormaliseIdempotent ==
    Called(renormalized) =>
        /\ Returned(renormalized)
        /\ renormalized.ops = normalized.ops

\* the second normalisation ran on a result that holds rewritten gates and a
\* passed-through control-flow op
C7_Witness ==
    /\ Returned(renormalized)
    /\ Len(circuit) = 2
    /\ circuit[1].name = "swap" /\ circuit[2].name = "measure"
    /\ Len(renormalized.ops) = 4


(***************************************************************************)
(* Routers: shared pieces                                                  *)
(***************************************************************************)
\* Python dict as a function: d[k] = v and del d[k]
DictSet(d, k, v) == [x \in DOMAIN d \cup {k} |-> IF x = k THEN v ELSE d[x]]
\* variant of del d[k] that leaves the key in place
DictDel_keeps_key(d, k) == d

DictDel(d, k) == [x \in DOMAIN d \ {k} |-> d[x]]

RECURSIVE Ascending(_)
\* the elements of a set of small integers in the order Python iterates them
Ascending(S) ==
    IF S = {} THEN <<>>
    ELSE LET m == CHOOSE x \in S : \A y \in S : x <= y
         IN <<m>> \o Ascending(S \ {m})

\* An operation of a routed circuit.  src, how, pair and part are bookkeeping
\* of the model: the index of the input op an output op derives from (0 for
\* an inserted one), the way it was emitted ("gate", "forced", "appended",
\* "swap"), and for the ops of an inserted SWAP the pair it exchanges and
\* the position of the op inside the SWAP's expansion.
RoutedOp(name, qubits, clbits, params, condition, metadata, src, how, pair, part) ==
    [name |-> name, qubits |-> qubits, clbits |-> clbits, params |-> params,
     condition |-> condition, metadata |-> metadata, body |-> <<>>,
     src |-> src, how |-> how, pair |-> pair, part |-> part]

\* Operation(name=op.name, qubits=qubits, params=op.params, clbits=op.clbits,
\*           condition=op.condition, metadata=op.metadata)
PhysOp(op, qubits, src, how) ==
    RoutedOp(op.name, qubits, op.clbits, op.params, op.condition, op.metadata,
             src, how, <<>>, 0)

\* transpiled_qc.operations.append(op): the input operation object itself
SameOp(op, src, how) == PhysOp(op, op.qubits, src, how)

\* Operation(name, qubits=..., params=...) created for an inserted SWAP
InsertedOp(name, qubits, params, pair, part) ==
    RoutedOp(name, qubits, <<>>, params, None, "{}", 0, "swap", pair, part)

\* the router raised
RouterRaise(kind) == Raise(kind, None)

(***************************************************************************)
(* Dynamic router                                                          *)
(***************************************************************************)
\* adjacency[u] of _build_undirected_coupling (a defaultdict: empty set for
\* a node without edges)
_build_undirected_coupling(cm) ==
    [u \in 0..(NumPhys - 1) |->
        {v \in 0..(NumPhys - 1) : <<u, v>> \in cm \/ <<v, u>> \in cm}]

RECURSIVE bfs_neighbors(_, _, _, _, _, _)
RECURSIVE bfs_queue(_, _, _, _)

\* the inner for-loop of _shortest_path over the neighbours nbrs[i..] of the
\* last node of path_; None is <<>>
bfs_neighbors(adjacency, end, path_, nbrs, i, qv) ==
    IF i > Len(nbrs) THEN bfs_queue(adjacency, end, qv.queue, qv.visited)
    ELSE LET neighbor == nbrs[i]
         IN IF neighbor = end THEN Append(path_, neighbor)
            ELSE IF neighbor \notin qv.visited
                 THEN bfs_neighbors(adjacency, end, path_, nbrs, i + 1,
                          [queue |-> Append(qv.queue, Append(path_, neighbor)),
                           visited |-> qv.visited \cup {neighbor}])
                 ELSE bfs_neighbors(adjacency, end, path_, nbrs, i + 1, qv)

\* the while-loop of _shortest_path
bfs_queue(adjacency, end, queue, visited) ==
    IF queue = <<>> THEN <<>>
    ELSE LET path_ == Head(queue)
             node == path_[Len(path_)]
         IN bfs_neighbors(adjacency, end, path_, Ascending(adjacency[node]), 1,
                          [queue |-> Tail(queue), visited |-> visited])

_shortest_path(adjacency, start, end) ==
    IF start = end THEN <<start>>
    ELSE bfs_queue(adjacency, end, <<<<start>>>>, {start})

\* CX(control, target) = H[t] CZ(c, t) H[t] with H = SX RZ(pi/2) SX; the
\* ops are numbered from part on
cx_decomposition(control, target, pair, part) ==
    <<InsertedOp("sx", <<target>>, <<>>, pair, part),
      InsertedOp("rz", <<target>>, <<"pi/2">>, pair, part + 1),
      InsertedOp("sx", <<target>>, <<>>, pair, part + 2),
      InsertedOp("cz", <<control, target>>, <<>>, pair, part + 3),
      InsertedOp("sx", <<target>>, <<>>, pair, part + 4),
      InsertedOp("rz", <<target>>, <<"pi/2">>, pair, part + 5),
      InsertedOp("sx", <<target>>, <<>>, pair, part + 6)>>

swap_decomposition(q0, q1) ==
    cx_decomposition(q0, q1, <<q0, q1>>, 1)
    \o cx_decomposition(q1, q0, <<q0, q1>>, 8)
    \o cx_decomposition(q0, q1, <<q0, q1>>, 15)

\* track_single_qubit_gate / track_two_qubit_gate look every qubit of the
\* op up in the dict they are given: KeyError when one is not a key
track_gate_raises(op_qubits, emb) ==
    \E i \in 1..Len(op_qubits) : op_qubits[i] \notin DOMAIN emb

(***************************************************************************)
(* Inputs of the routers                                                   *)
(***************************************************************************)
\* native gate sets of the topologies (topology.basisGates)
NativeSets == {{"cx", "rz", "sx", "x", "id"}, {"cz", "rz", "sx", "x", "id"}}

\* the two-qubit gate of a circuit already mapped to the native set
NativeTwoQubit(native) == IF "cx" \in native THEN "cx" ELSE "cz"

\* the operations of a basis-mapped circuit on n logical qubits: rz on each
\* qubit and the native two-qubit gate on each ordered pair of distinct
\* qubits, and a classically conditioned rz and two-qubit gate that carry
\* metadata
RouterOps(n, native) ==
    {Gate("rz", <<q>>, <<"theta">>) : q \in 0..(n - 1)}
    \cup {Gate(NativeTwoQubit(native), <<a, b>>, <<>>) :
            <<a, b>> \in {e \in (0..(n - 1)) \X (0..(n - 1)) : e[1] # e[2]}}
    \cup {Tagged("rz", <<0>>, <<"theta">>)}
    \cup {Tagged(NativeTwoQubit(native), <<0, b>>, <<>>) : b \in {n - 1} \ {0}}

Min(a, b) == IF a < b THEN a ELSE b

\* qc (num_qubits, operations) and topology (numQubits, coupling_map,
\* basisGates) handed to router a; the circuit fits the topology as
\* run_transpilation requires
RouterInputs(a) ==
    /\ alg = a
    /\ numQubits \in 1..NumPhys
    /\ coupling_map \in SUBSET {e \in (0..(numQubits - 1)) \X (0..(numQubits - 1)) :
                                   e[1] < e[2]}
    /\ basisGates \in NativeSets
    /\ calibrationData = <<>>
    /\ num_qubits \in 1..Min(MaxLogical, numQubits)
    /\ operations \in SeqsUpTo(RouterOps(num_qubits, basisGates), MaxOps)

\* the normaliser and the basis mapper are not part of a router run
NormIdle ==
    /\ circuit = <<>> /\ target_basis = {}
    /\ normalized = NotCalled /\ renormalized = NotCalled /\ mapped = NotCalled

\* the identity embedding {i: i for i in range(qc.num_qubits)}
IdentityEmbedding(n) == [i \in 0..(n - 1) |-> i]

\* {v: k for k, v in embedding.items()}
InverseOf(emb) ==
    [p \in {emb[l] : l \in DOMAIN emb} |-> CHOOSE l \in DOMAIN emb : emb[l] = p]

(***************************************************************************)
(* Dynamic router: the run                                                 *)
(***************************************************************************)
InitDynamic ==
    /\ NormIdle
    /\ RouterInputs("dynamic")
    /\ max_swaps_per_gate = 0
    /\ pc = "loop"
    /\ embedding = IdentityEmbedding(num_qubits)
    /\ physical_pos = IdentityEmbedding(num_qubits)
    /\ logical_at_physical = InverseOf(IdentityEmbedding(num_qubits))
    /\ out = <<>> /\ op_idx = 1 /\ path = <<>> /\ step = 0
    /\ current_physical = 0 /\ saved = <<>> /\ executed = <<>>
    /\ swaps_per_gate = <<>> /\ iteration = 0 /\ consecutive_swaps = 0
    /\ logical_swap_count = 0 /\ final_embedding = <<>> /\ result = NotCalled

\* variables the dynamic router never touches
dynUnused == <<embedding, saved, executed, swaps_per_gate, iteration,
               consecutive_swaps>>

\* the router stops with an exception
RouterFails(kind) ==
    /\ pc' = "failed"
    /\ result' = RouterRaise(kind)

\* append phys_op, then track_*_qubit_gate(phys_op, physical_pos, ...), which
\* raises KeyError when a qubit of phys_op is not a key of physical_pos
DynEmitAndTrack(phys_op) ==
    /\ out' = Append(out, phys_op)
    /\ IF track_gate_raises(phys_op.qubits, physical_pos)
       THEN RouterFails("KeyError") /\ UNCHANGED op_idx
       ELSE pc' = "loop" /\ op_idx' = op_idx + 1 /\ UNCHANGED result

\* positions the routed gate is emitted on, before the walk (path ends)
routed_gate_positions_before_walk(pos, op, walked) ==
    <<walked[1], walked[Len(walked)]>>

\* p0 = physical_pos[q0]; p1 = physical_pos[q1] after the walk
routed_gate_positions(pos, op, walked) ==
    <<pos[op.qubits[1]], pos[op.qubits[2]]>>

\* a single-qubit gate of the main loop
DynSingleQubit ==
    /\ alg = "dynamic" /\ pc = "loop" /\ op_idx <= Len(operations)
    /\ LET op == operations[op_idx]
       IN /\ Len(op.qubits) = 1
          /\ DynEmitAndTrack(PhysOp(op, <<physical_pos[op.qubits[1]]>>,
                                    op_idx, "gate"))
    /\ UNCHANGED <<physical_pos, logical_at_physical, path, step,
                   current_physical, logical_swap_count, final_embedding>>
    /\ UNCHANGED dynUnused

\* a two-qubit gate whose operands are adjacent
DynAdjacent ==
    /\ alg = "dynamic" /\ pc = "loop" /\ op_idx <= Len(operations)
    /\ LET op == operations[op_idx]
           coupling_adjacency == _build_undirected_coupling(coupling_map)
       IN /\ Len(op.qubits) = 2
          /\ LET p0 == physical_pos[op.qubits[1]]
                 p1 == physical_pos[op.qubits[2]]
             IN /\ p1 \in coupling_adjacency[p0]
                /\ DynEmitAndTrack(PhysOp(op, <<p0, p1>>, op_idx, "gate"))
    /\ UNCHANGED <<physical_pos, logical_at_physical, path, step,
                   current_physical, logical_swap_count, final_embedding>>
    /\ UNCHANGED dynUnused

\* a two-qubit gate whose operands are not adjacent: find the path, or raise
DynStartRoute ==
    /\ alg = "dynamic" /\ pc = "loop" /\ op_idx <= Len(operations)
    /\ LET op == operations[op_idx]
           coupling_adjacency == _build_undirected_coupling(coupling_map)
       IN /\ Len(op.qubits) = 2
          /\ LET p0 == physical_pos[op.qubits[1]]
                 p1 == physical_pos[op.qubits[2]]
                 found == _shortest_path(coupling_adjacency, p0, p1)
             IN /\ p1 \notin coupling_adjacency[p0]
                /\ IF found = <<>>
                   THEN /\ RouterFails("RuntimeError")
                        /\ UNCHANGED <<path, step, current_physical>>
                   ELSE /\ pc' = "walk"
                        /\ path' = found
                        /\ step' = 0
                        /\ current_physical' = p0
                        /\ UNCHANGED result
    /\ UNCHANGED <<physical_pos, logical_at_physical, out, op_idx,
                   logical_swap_count, final_embedding>>
    /\ UNCHANGED dynUnused

\* one step of the walk onto an empty physical qubit: no gate is emitted
DynMove ==
    /\ alg = "dynamic" /\ pc = "walk" /\ step < Len(path) - 1
    /\ LET moving_logical == operations[op_idx].qubits[1]
           next_physical == path[step + 2]
       IN /\ next_physical \notin DOMAIN logical_at_physical
          /\ physical_pos' = [physical_pos EXCEPT ![moving_logical] = next_physical]
          /\ logical_at_physical' =
                DictDel(DictSet(logical_at_physical, next_physical, moving_logical),
                        current_physical)
          /\ current_physical' = next_physical
    /\ step' = step + 1
    /\ UNCHANGED <<pc, out, op_idx, path, logical_swap_count, final_embedding,
                   result>>
    /\ UNCHANGED dynUnused

\* one step of the walk onto an occupied physical qubit: a decomposed SWAP
DynSwap ==
    /\ alg = "dynamic" /\ pc = "walk" /\ step < Len(path) - 1
    /\ LET moving_logical == operations[op_idx].qubits[1]
           next_physical == path[step + 2]
       IN /\ next_physical \in DOMAIN logical_at_physical
          /\ LET neighbor_logical == logical_at_physical[next_physical]
             IN /\ logical_swap_count' = logical_swap_count + 1
                /\ out' = out \o swap_decomposition(current_physical, next_physical)
                \* apply_swap(moving_logical, neighbor_logical,
                \*            current_physical, next_physical)
                /\ physical_pos' =
                      [physical_pos EXCEPT ![moving_logical] = next_physical,
                                           ![neighbor_logical] = current_physical]
                /\ logical_at_physical' =
                      DictSet(DictSet(logical_at_physical, current_physical,
                                      neighbor_logical),
                              next_physical, moving_logical)
                /\ current_physical' = next_physical
    /\ step' = step + 1
    /\ UNCHANGED <<pc, op_idx, path, final_embedding, result>>
    /\ UNCHANGED dynUnused

\* the walk is over: the gate is emitted on the current positions
DynEmitRouted ==
    /\ alg = "dynamic" /\ pc = "walk" /\ step = Len(path) - 1
    /\ LET op == operations[op_idx]
       IN DynEmitAndTrack(PhysOp(op, routed_gate_positions(physical_pos, op, path),
                                 op_idx, "gate"))
    /\ UNCHANGED <<physical_pos, logical_at_physical, path, step,
                   current_physical, logical_swap_count, final_embedding>>
    /\ UNCHANGED dynUnused

\* FINALIZE: final_embedding = physical_pos.copy(); return
DynReturn ==
    /\ alg = "dynamic" /\ pc = "loop" /\ op_idx > Len(operations)
    /\ pc' = "done"
    /\ final_embedding' = physical_pos
    /\ result' = Ok(out)
    /\ UNCHANGED <<physical_pos, logical_at_physical, out, op_idx, path, step,
                   current_physical, logical_swap_count>>
    /\ UNCHANGED dynUnused

NextDynamic ==
    \/ DynSingleQubit /\ UNCHANGED <<normVars, routeInputs>>
    \/ DynAdjacent /\ UNCHANGED <<normVars, routeInputs>>
    \/ DynStartRoute /\ UNCHANGED <<normVars, routeInputs>>
    \/ DynMove /\ UNCHANGED <<normVars, routeInputs>>
    \/ DynSwap /\ UNCHANGED <<normVars, routeInputs>>
    \/ DynEmitRouted /\ UNCHANGED <<normVars, routeInputs>>
    \/ DynReturn /\ UNCHANGED <<normVars, routeInputs>>

SpecDynamic == InitDynamic /\ [][NextDynamic]_vars

\* the circuits of depth chain + 1 on n logical qubits: chain rz gates on
\* one qubit followed by the native two-qubit gate on it and another qubit
ChainCircuits(n, native, chain) ==
    {[i \in 1..(chain + 1) |->
         IF i <= chain THEN Gate("rz", <<e[1]>>, <<"theta">>)
         ELSE Gate(NativeTwoQubit(native), e, <<>>)] :
       e \in {x \in (0..(n - 1)) \X (0..(n - 1)) : x[1] # x[2]}}

\* the dynamic router on circuits with a long chain of gates on one qubit
InitDynamicChain ==
    /\ NormIdle
    /\ alg = "dynamic"
    /\ numQubits \in 2..NumPhys
    /\ coupling_map \in SUBSET {e \in (0..(numQubits - 1)) \X (0..(numQubits - 1)) :
                                   e[1] < e[2]}
    /\ basisGates \in NativeSets
    /\ calibrationData = <<>>
    /\ num_qubits \in 2..Min(MaxLogical, numQubits)
    /\ operations \in UNION {ChainCircuits(num_qubits, basisGates, chain) :
                                chain \in (MaxChain - 1)..MaxChain}
    /\ max_swaps_per_gate = 0
    /\ pc = "loop"
    /\ embedding = IdentityEmbedding(num_qubits)
    /\ physical_pos = IdentityEmbedding(num_qubits)
    /\ logical_at_physical = InverseOf(IdentityEmbedding(num_qubits))
    /\ out = <<>> /\ op_idx = 1 /\ path = <<>> /\ step = 0
    /\ current_physical = 0 /\ saved = <<>> /\ executed = <<>>
    /\ swaps_per_gate = <<>> /\ iteration = 0 /\ consecutive_swaps = 0
    /\ logical_swap_count = 0 /\ final_embedding = <<>> /\ result = NotCalled

SpecDynamicChain == InitDynamicChain /\ [][NextDynamic]_vars

(***************************************************************************)
(* Naive router                                                            *)
(***************************************************************************)
\* max(all_physical_qubits) if all_physical_qubits else -1
max_physical_qubit(cm) ==
    LET all_physical_qubits == {e[1] : e \in cm} \cup {e[2] : e \in cm}
    IN IF all_physical_qubits = {} THEN -1
       ELSE CHOOSE m \in all_physical_qubits : \A x \in all_physical_qubits : x <= m

InitNaive ==
    /\ NormIdle
    /\ RouterInputs("naive")
    /\ max_swaps_per_gate = 0
    /\ pc = "start"
    /\ embedding = IdentityEmbedding(num_qubits)
    /\ physical_pos = IdentityEmbedding(num_qubits)
    /\ logical_at_physical = InverseOf(IdentityEmbedding(num_qubits))
    /\ out = <<>> /\ op_idx = 1 /\ path = <<>> /\ step = 0
    /\ current_physical = 0 /\ saved = <<>> /\ executed = <<>>
    /\ swaps_per_gate = <<>> /\ iteration = 0 /\ consecutive_swaps = 0
    /\ logical_swap_count = 0 /\ final_embedding = <<>> /\ result = NotCalled

\* variables the naive router never touches
naiveUnused == <<embedding, executed, swaps_per_gate, iteration,
                 consecutive_swaps>>

\* the validation before the main loop: the identity embedding must fit the
\* qubits named by the coupling map
NaiveValidate ==
    /\ alg = "naive" /\ pc = "start"
    /\ IF num_qubits - 1 > max_physical_qubit(coupling_map)
       THEN RouterFails("ValueError")
       ELSE pc' = "loop" /\ UNCHANGED result
    /\ UNCHANGED <<physical_pos, logical_at_physical, out, op_idx, path, step,
                   current_physical, saved, logical_swap_count, final_embedding>>
    /\ UNCHANGED naiveUnused

\* a single-qubit gate: the input operation itself is appended
NaiveSingleQubit ==
    /\ alg = "naive" /\ pc = "loop" /\ op_idx <= Len(operations)
    /\ LET op == operations[op_idx]
       IN /\ Len(op.qubits) = 1
          /\ out' = Append(out, SameOp(op, op_idx, "gate"))
    /\ op_idx' = op_idx + 1
    /\ UNCHANGED <<pc, physical_pos, logical_at_physical, path, step,
                   current_physical, saved, logical_swap_count, final_embedding,
                   result>>
    /\ UNCHANGED naiveUnused

\* a two-qubit gate whose operands are adjacent: the input operation itself
NaiveAdjacent ==
    /\ alg = "naive" /\ pc = "loop" /\ op_idx <= Len(operations)
    /\ LET op == operations[op_idx]
           coupling_adjacency == _build_undirected_coupling(coupling_map)
       IN /\ Len(op.qubits) = 2
          /\ physical_pos[op.qubits[2]] \in coupling_adjacency[physical_pos[op.qubits[1]]]
          /\ out' = Append(out, SameOp(op, op_idx, "gate"))
    /\ op_idx' = op_idx + 1
    /\ UNCHANGED <<pc, physical_pos, logical_at_physical, path, step,
                   current_physical, saved, logical_swap_count, final_embedding,
                   result>>
    /\ UNCHANGED naiveUnused

\* a two-qubit gate whose operands are not adjacent: find the path or raise,
\* save the mappings and start the forward pass
NaiveStartRoute ==
    /\ alg = "naive" /\ pc = "loop" /\ op_idx <= Len(operations)
    /\ LET op == operations[op_idx]
           coupling_adjacency == _build_undirected_coupling(coupling_map)
       IN /\ Len(op.qubits) = 2
          /\ LET p0 == physical_pos[op.qubits[1]]
                 p1 == physical_pos[op.qubits[2]]
                 found == _shortest_path(coupling_adjacency, p0, p1)
             IN /\ p1 \notin coupling_adjacency[p0]
                /\ IF found = <<>>
                   THEN /\ RouterFails("RuntimeError")
                        /\ UNCHANGED <<path, step, current_physical, saved>>
                   ELSE /\ pc' = "forward"
                        /\ path' = found
                        /\ step' = 0
                        /\ current_physical' = p0
                        /\ saved' = [physical_pos |-> physical_pos,
                                     logical_at_physical |-> logical_at_physical]
                        /\ UNCHANGED result
    /\ UNCHANGED <<physical_pos, logical_at_physical, out, op_idx,
                   logical_swap_count, final_embedding>>
    /\ UNCHANGED naiveUnused

\* the step onto an empty physical qubit without "del logical_at_physical[
\* old_physical]": the qubit left behind still names the moving qubit
NaiveMoveTo_keeps_slot(target) ==
    LET moving_logical == operations[op_idx].qubits[1]
    IN /\ target \notin DOMAIN logical_at_physical
       /\ physical_pos' = [physical_pos EXCEPT ![moving_logical] = target]
       /\ logical_at_physical' = DictSet(logical_at_physical, target, moving_logical)
       /\ current_physical' = target
       /\ UNCHANGED <<out, logical_swap_count>>

\* the moving qubit steps onto the empty physical qubit target
NaiveMoveTo(target) ==
    LET moving_logical == operations[op_idx].qubits[1]
    IN /\ target \notin DOMAIN logical_at_physical
       /\ physical_pos' = [physical_pos EXCEPT ![moving_logical] = target]
       /\ logical_at_physical' =
             DictDel(DictSet(logical_at_physical, target, moving_logical),
                     current_physical)
       /\ current_physical' = target
       /\ UNCHANGED <<out, logical_swap_count>>

\* the moving qubit is exchanged with the logical qubit on target: a swap
\* operation on the two LOGICAL qubits is appended
NaiveSwapWith(target) ==
    LET moving_logical == operations[op_idx].qubits[1]
    IN /\ target \in DOMAIN logical_at_physical
       /\ LET neighbor_logical == logical_at_physical[target]
          IN /\ out' = Append(out, InsertedOp("swap",
                                       <<moving_logical, neighbor_logical>>, <<>>,
                                       <<current_physical, target>>, 1))
             /\ logical_swap_count' = logical_swap_count + 1
             \* apply_swap(moving_logical, neighbor_logical, current_physical, target)
             /\ physical_pos' =
                   [physical_pos EXCEPT ![moving_logical] = target,
                                        ![neighbor_logical] = current_physical]
             /\ logical_at_physical' =
                   DictSet(DictSet(logical_at_physical, current_physical,
                                   neighbor_logical),
                           target, moving_logical)
             /\ current_physical' = target

\* forward pass, step i = step: next_physical = path[i + 1]
NaiveForwardMove ==
    /\ alg = "naive" /\ pc = "forward" /\ step < Len(path) - 1
    /\ NaiveMoveTo(path[step + 2])
    /\ step' = step + 1
    /\ UNCHANGED <<pc, op_idx, path, saved, final_embedding, result>>
    /\ UNCHANGED naiveUnused

NaiveForwardSwap ==
    /\ alg = "naive" /\ pc = "forward" /\ step < Len(path) - 1
    /\ NaiveSwapWith(path[step + 2])
    /\ step' = step + 1
    /\ UNCHANGED <<pc, op_idx, path, saved, final_embedding, result>>
    /\ UNCHANGED naiveUnused

\* the forward pass is over: check adjacency, append the input operation
\* itself and start the reverse pass at i = len(path) - 1
NaiveEmitRouted ==
    /\ alg = "naive" /\ pc = "forward" /\ step = Len(path) - 1
    /\ LET op == operations[op_idx]
           coupling_adjacency == _build_undirected_coupling(coupling_map)
           p0_final == physical_pos[op.qubits[1]]
           p1_final == physical_pos[op.qubits[2]]
       IN IF p1_final \notin coupling_adjacency[p0_final]
          THEN /\ RouterFails("RuntimeError")
               /\ UNCHANGED <<out, step, current_physical>>
          ELSE /\ out' = Append(out, SameOp(op, op_idx, "gate"))
               /\ pc' = "reverse"
               /\ step' = Len(path) - 1
               /\ current_physical' = p0_final
               /\ UNCHANGED result
    /\ UNCHANGED <<physical_pos, logical_at_physical, op_idx, path, saved,
                   logical_swap_count, final_embedding>>
    /\ UNCHANGED naiveUnused

\* reverse pass, step i = step: prev_physical = path[i - 1]
NaiveReverseMove ==
    /\ alg = "naive" /\ pc = "reverse" /\ step > 0
    /\ NaiveMoveTo(path[step])
    /\ step' = step - 1
    /\ UNCHANGED <<pc, op_idx, path, saved, final_embedding, result>>
    /\ UNCHANGED naiveUnused

NaiveReverseSwap ==
    /\ alg = "naive" /\ pc = "reverse" /\ step > 0
    /\ NaiveSwapWith(path[step])
    /\ step' = step - 1
    /\ UNCHANGED <<pc, op_idx, path, saved, final_embedding, result>>
    /\ UNCHANGED naiveUnused

\* the reverse pass is over: restore the saved mappings on a mismatch
NaiveRestore ==
    /\ alg = "naive" /\ pc = "reverse" /\ step = 0
    /\ IF physical_pos # saved.physical_pos
       THEN /\ physical_pos' = saved.physical_pos
            /\ logical_at_physical' = saved.logical_at_physical
       ELSE UNCHANGED <<physical_pos, logical_at_physical>>
    /\ pc' = "loop"
    /\ op_idx' = op_idx + 1
    /\ UNCHANGED <<out, path, step, current_physical, saved,
                   logical_swap_count, final_embedding, result>>
    /\ UNCHANGED naiveUnused

\* return transpiled_qc, embedding, metrics: the identity embedding
NaiveReturn ==
    /\ alg = "naive" /\ pc = "loop" /\ op_idx > Len(operations)
    /\ pc' = "done"
    /\ final_embedding' = embedding
    /\ result' = Ok(out)
    /\ UNCHANGED <<physical_pos, logical_at_physical, out, op_idx, path, step,
                   current_physical, saved, logical_swap_count>>
    /\ UNCHANGED naiveUnused

NextNaive ==
    \/ NaiveValidate /\ UNCHANGED <<normVars, routeInputs>>
    \/ NaiveSingleQubit /\ UNCHANGED <<normVars, routeInputs>>
    \/ NaiveAdjacent /\ UNCHANGED <<normVars, routeInputs>>
    \/ NaiveStartRoute /\ UNCHANGED <<normVars, routeInputs>>
    \/ NaiveForwardMove /\ UNCHANGED <<normVars, routeInputs>>
    \/ NaiveForwardSwap /\ UNCHANGED <<normVars, routeInputs>>
    \/ NaiveEmitRouted /\ UNCHANGED <<normVars, routeInputs>>
    \/ NaiveReverseMove /\ UNCHANGED <<normVars, routeInputs>>
    \/ NaiveReverseSwap /\ UNCHANGED <<normVars, routeInputs>>
    \/ NaiveRestore /\ UNCHANGED <<normVars, routeInputs>>
    \/ NaiveReturn /\ UNCHANGED <<normVars, routeInputs>>

SpecNaive == InitNaive /\ [][NextNaive]_vars

(***************************************************************************)
(* SABRE-style router                                                      *)
(***************************************************************************)
\* the value distance_matrix.get(..., 999999) yields for an unreachable pair
Unreachable == 999999

\* the outer iteration cap of the main loop
max_iterations == 10000

\* the cap on consecutive iterations that executed nothing
max_consecutive_swaps == 50

\* both directions of every edge
build_coupling_set(cm) == cm \cup {<<e[2], e[1]>> : e \in cm}

_build_adjacency_list(cm) == _build_undirected_coupling(cm)

RECURSIVE bfs_distances(_, _, _, _)
\* the BFS of _build_distance_matrix_fast from one source: the pairs
\* <<target, distance>> of the nodes at distance >= d, frontier being the
\* nodes at distance d and seen the nodes at distance <= d
bfs_distances(adjacency, frontier, seen, d) ==
    IF frontier = {} THEN {}
    ELSE LET next == (UNION {adjacency[u] : u \in frontier}) \ seen
         IN {<<t, d>> : t \in frontier}
            \cup bfs_distances(adjacency, next, seen \cup next, d + 1)

\* dist[(source, target)] for every target reachable from source
_build_distance_matrix_fast(adjacency, n) ==
    LET distances(source) == bfs_distances(adjacency, {source}, {source}, 0)
    IN [st \in UNION {{<<source, td[1]>> : td \in distances(source)} :
                      source \in 0..(n - 1)} |->
          (CHOOSE td \in distances(st[1]) : td[1] = st[2])[2]]

\* distance_matrix.get((p0, p1), 999999)
distance_get(distance_matrix, p0, p1) ==
    IF <<p0, p1>> \in DOMAIN distance_matrix THEN distance_matrix[<<p0, p1>>]
    ELSE Unreachable

\* the dependencies when last_gate_on_qubit[q] = idx is recorded before it
\* is read: every op with a qubit depends on itself
_build_dependencies_on_itself(ops) ==
    [idx \in 1..Len(ops) |-> IF ops[idx].qubits = <<>> THEN {} ELSE {idx}]

\* dependencies[idx]: for every qubit of the op, the last earlier op on it
_build_dependencies_debug(ops) ==
    [idx \in 1..Len(ops) |->
        {j \in 1..(idx - 1) :
            \E q \in Range(ops[idx].qubits) :
                /\ q \in Range(ops[j].qubits)
                /\ \A k \in (j + 1)..(idx - 1) : q \notin Range(ops[k].qubits)}]

\* a front layer that does not look at the dependencies
_get_front_layer_all(done, dependencies) ==
    Ascending({i \in 1..Len(done) : ~done[i]})

\* the not-executed ops all of whose dependencies are executed, ascending
_get_front_layer_debug(done, dependencies) ==
    Ascending({i \in 1..Len(done) :
                  ~done[i] /\ \A dep \in dependencies[i] : done[dep]})

\* tuple(sorted([a, b]))
SortedPair(a, b) == IF a <= b THEN <<a, b>> ELSE <<b, a>>

\* the logical qubits l != q of emb that sit on a neighbour of emb[q], in
\* the order the two nested loops of _find_swap_for_gate meet them
NeighbourLogicals(q, emb, adjacency) ==
    LET nbrs == Ascending(adjacency[emb[q]])
        onNbr(neighbor_p) == {l \in DOMAIN emb : emb[l] = neighbor_p /\ l # q}
    IN [k \in 1..Len(nbrs) |-> onNbr(nbrs[k])]

RECURSIVE sabre_scan(_, _, _, _, _, _, _, _, _)
\* one of the two candidate loops of _find_swap_for_gate: q is swapped with
\* the logical qubit on a neighbour, the other operand stays on p_other;
\* q_is_q0 tells which loop it is; best is [swap, improvement]
sabre_scan(q, q_is_q0, p_other, emb, cands, k, current_dist, distance_matrix, best) ==
    IF k > Len(cands) THEN best
    ELSE IF cands[k] = {} THEN
        sabre_scan(q, q_is_q0, p_other, emb, cands, k + 1, current_dist,
                   distance_matrix, best)
    ELSE LET l == CHOOSE x \in cands[k] : TRUE
             new_p == emb[l]
             new_dist == IF q_is_q0
                         THEN distance_get(distance_matrix, new_p, p_other)
                         ELSE distance_get(distance_matrix, p_other, new_p)
             improvement == current_dist - new_dist
         IN sabre_scan(q, q_is_q0, p_other, emb, cands, k + 1, current_dist,
                distance_matrix,
                IF improvement > best.improvement
                THEN [swap |-> SortedPair(q, l), improvement |-> improvement]
                ELSE best)

\* the SWAP that reduces the distance between q0 and q1 most, <<>> for None
_find_swap_for_gate(q0, q1, emb, adjacency, distance_matrix, coupling_set) ==
    LET p0 == emb[q0]
        p1 == emb[q1]
        current_dist == distance_get(distance_matrix, p0, p1)
    IN IF <<p0, p1>> \in coupling_set \/ <<p1, p0>> \in coupling_set THEN <<>>
       ELSE LET start == [swap |-> <<>>, improvement |-> -1]
                after_q0 == sabre_scan(q0, TRUE, p1, emb,
                                NeighbourLogicals(q0, emb, adjacency), 1,
                                current_dist, distance_matrix, start)
                after_q1 == sabre_scan(q1, FALSE, p0, emb,
                                NeighbourLogicals(q1, emb, adjacency), 1,
                                current_dist, distance_matrix, after_q0)
            IN IF after_q1.improvement > 0 THEN after_q1.swap ELSE <<>>

\* possible_swaps of _find_random_swap_safe
possible_swaps(emb, adjacency) ==
    {SortedPair(l0, l1) : <<l0, l1>> \in
        {ll \in (DOMAIN emb) \X (DOMAIN emb) :
            ll[1] # ll[2] /\ emb[ll[2]] \in adjacency[emb[ll[1]]]}}

InitSabre ==
    /\ NormIdle
    /\ RouterInputs("sabre")
    /\ max_swaps_per_gate \in 1..MaxBudget
    /\ pc = "loop"
    /\ embedding = IdentityEmbedding(num_qubits)
    /\ physical_pos = <<>> /\ logical_at_physical = <<>>
    /\ out = <<>> /\ op_idx = 0 /\ path = <<>> /\ step = 0
    /\ current_physical = 0 /\ saved = <<>>
    /\ executed = [i \in 1..Len(operations) |-> FALSE]
    /\ swaps_per_gate = [i \in 1..Len(operations) |-> 0]
    /\ iteration = 0 /\ consecutive_swaps = 0
    /\ logical_swap_count = 0 /\ final_embedding = <<>> /\ result = NotCalled

\* variables the SABRE-style router never touches
sabreUnused == <<physical_pos, logical_at_physical, op_idx, path, step,
                 current_physical, saved>>

all(flags) == \A i \in 1..Len(flags) : flags[i]

\* (p0, p1) in coupling_set or (p1, p0) in coupling_set
Connected(coupling_set, p0, p1) ==
    <<p0, p1>> \in coupling_set \/ <<p1, p0>> \in coupling_set

\* op gate_idx is marked executed after new_op was appended
MarkExecuted(st, gate_idx, new_op) ==
    [st EXCEPT !.out = Append(st.out, new_op),
               !.executed = [st.executed EXCEPT ![gate_idx] = TRUE],
               !.executed_this_iteration = TRUE,
               !.consecutive_swaps = 0]

RECURSIVE sabre_execute_pass(_, _, _, _, _, _)
\* "Try to execute gates in front layer": the for-loop over front_layer[k..];
\* st holds out, executed, swaps_per_gate, executed_this_iteration and
\* consecutive_swaps; budget is max_swaps_per_gate
sabre_execute_pass(front_layer, k, st, emb, coupling_set, budget) ==
    IF k > Len(front_layer) THEN st
    ELSE LET gate_idx == front_layer[k]
             op == operations[gate_idx]
             rest_of_loop(next) == sabre_execute_pass(front_layer, k + 1, next, emb,
                                               coupling_set, budget)
         IN IF st.executed[gate_idx] THEN rest_of_loop(st)
            ELSE IF Len(op.qubits) = 1
            THEN rest_of_loop(MarkExecuted(st, gate_idx, SameOp(op, gate_idx, "gate")))
            ELSE IF Len(op.qubits) = 2
            THEN IF Connected(coupling_set, emb[op.qubits[1]], emb[op.qubits[2]])
                 THEN rest_of_loop([MarkExecuted(st, gate_idx, SameOp(op, gate_idx, "gate"))
                               EXCEPT !.swaps_per_gate[gate_idx] = 0])
                 ELSE LET blocked == [st EXCEPT !.swaps_per_gate[gate_idx] = @ + 1]
                      IN IF blocked.swaps_per_gate[gate_idx] > budget
                         THEN rest_of_loop(MarkExecuted(blocked, gate_idx,
                                                 SameOp(op, gate_idx, "forced")))
                         ELSE rest_of_loop(blocked)
            ELSE rest_of_loop(st)

\* the state of one iteration after its execute pass
SabreAfterPass ==
    sabre_execute_pass(
        _get_front_layer_debug(executed, _build_dependencies_debug(operations)),
        1,
        [out |-> out, executed |-> executed, swaps_per_gate |-> swaps_per_gate,
         executed_this_iteration |-> FALSE, consecutive_swaps |-> consecutive_swaps],
        embedding, build_coupling_set(coupling_map), max_swaps_per_gate)

RECURSIVE MostCritical(_, _, _)
\* blocked_gates.sort(key=dist, reverse=True)[0]: the first gate of
\* blocked_gates[k..] with the largest distance (the sort is stable)
MostCritical(blocked_gates, k, best) ==
    IF k > Len(blocked_gates) THEN best
    ELSE MostCritical(blocked_gates, k + 1,
                      IF blocked_gates[k].dist > best.dist THEN blocked_gates[k]
                      ELSE best)

\* the blocked two-qubit gates of the front layer, in front-layer order
BlockedGates(front_layer, emb, coupling_set, distance_matrix) ==
    LET isBlocked(idx) ==
            /\ Len(operations[idx].qubits) = 2
            /\ ~Connected(coupling_set, emb[operations[idx].qubits[1]],
                          emb[operations[idx].qubits[2]])
        RECURSIVE collect(_)
        collect(k) ==
            IF k > Len(front_layer) THEN <<>>
            ELSE LET idx == front_layer[k]
                     rest == collect(k + 1)
                 IN IF isBlocked(idx)
                    THEN <<[idx |-> idx, q0 |-> operations[idx].qubits[1],
                            q1 |-> operations[idx].qubits[2],
                            dist |-> distance_get(distance_matrix,
                                        emb[operations[idx].qubits[1]],
                                        emb[operations[idx].qubits[2]])]>> \o rest
                    ELSE rest
    IN collect(1)

\* the loop condition and the front-layer test at the top of an iteration
SabreIterates ==
    /\ alg = "sabre" /\ pc = "loop"
    /\ ~all(executed) /\ iteration < max_iterations
    /\ _get_front_layer_debug(executed, _build_dependencies_debug(operations)) # <<>>

\* the SWAP _find_swap_for_gate proposes for the most critical blocked gate
\* of this iteration, <<>> for None
SabreBestSwap ==
    LET adjacency == _build_adjacency_list(coupling_map)
        coupling_set == build_coupling_set(coupling_map)
        distance_matrix == _build_distance_matrix_fast(adjacency, numQubits)
        blocked_gates ==
            BlockedGates(_get_front_layer_debug(executed,
                             _build_dependencies_debug(operations)),
                         embedding, coupling_set, distance_matrix)
    IN IF blocked_gates = <<>> THEN <<>>
       ELSE LET most_critical == MostCritical(blocked_gates, 2, blocked_gates[1])
            IN _find_swap_for_gate(most_critical.q0, most_critical.q1, embedding,
                                   adjacency, distance_matrix, coupling_set)

\* no gate could be executed and a SWAP may be inserted
SabreNeedsSwap ==
    /\ SabreIterates
    /\ ~SabreAfterPass.executed_this_iteration
    /\ consecutive_swaps + 1 <= max_consecutive_swaps

\* "Insert the SWAP": a swap operation on the two LOGICAL qubits is appended
\* and the embedding is updated
SabreInsert(best_swap) ==
    LET swap_q0 == best_swap[1]
        swap_q1 == best_swap[2]
    IN /\ out' = Append(out, InsertedOp("swap", <<swap_q0, swap_q1>>, <<>>,
                                        <<embedding[swap_q0], embedding[swap_q1]>>, 1))
       /\ logical_swap_count' = logical_swap_count + 1
       /\ embedding' = [embedding EXCEPT ![swap_q0] = embedding[swap_q1],
                                         ![swap_q1] = embedding[swap_q0]]
       /\ swaps_per_gate' = SabreAfterPass.swaps_per_gate
       /\ consecutive_swaps' = consecutive_swaps + 1
       /\ iteration' = iteration + 1
       /\ UNCHANGED <<pc, executed, final_embedding, result>>

\* an iteration in which at least one gate was executed (or force-executed)
SabreExecute ==
    /\ SabreIterates
    /\ SabreAfterPass.executed_this_iteration
    /\ out' = SabreAfterPass.out
    /\ executed' = SabreAfterPass.executed
    /\ swaps_per_gate' = SabreAfterPass.swaps_per_gate
    /\ consecutive_swaps' = SabreAfterPass.consecutive_swaps
    /\ iteration' = iteration + 1
    /\ UNCHANGED <<pc, embedding, logical_swap_count, final_embedding, result>>
    /\ UNCHANGED sabreUnused

\* an iteration that inserts the SWAP found for the most critical gate
SabreSwap ==
    /\ SabreNeedsSwap
    /\ SabreBestSwap # <<>>
    /\ SabreInsert(SabreBestSwap)
    /\ UNCHANGED sabreUnused

\* an iteration that inserts a random SWAP: random.choice(possible_swaps)
SabreRandomSwap ==
    /\ SabreNeedsSwap
    /\ SabreBestSwap = <<>>
    /\ \E best_swap \in possible_swaps(embedding, _build_adjacency_list(coupling_map)) :
          SabreInsert(best_swap)
    /\ UNCHANGED sabreUnused

\* a finalization that appends nothing
Unexecuted_dropped(done) == <<>>

\* "Add any unexecuted gates": the ops of done that are not executed, as-is
Unexecuted(done) ==
    LET RECURSIVE rest(_)
        rest(i) == IF i > Len(done) THEN <<>>
                   ELSE IF done[i] THEN rest(i + 1)
                   ELSE <<SameOp(operations[i], i, "appended")>> \o rest(i + 1)
    IN rest(1)

\* an iteration that breaks out of the loop (too many consecutive SWAPs, or
\* no SWAP to insert), followed by the finalization and the return
SabreGiveUp ==
    /\ SabreIterates
    /\ ~SabreAfterPass.executed_this_iteration
    /\ \/ consecutive_swaps + 1 > max_consecutive_swaps
       \/ /\ SabreBestSwap = <<>>
          /\ possible_swaps(embedding, _build_adjacency_list(coupling_map)) = {}
    /\ out' = SabreAfterPass.out \o Unexecuted(SabreAfterPass.executed)
    /\ swaps_per_gate' = SabreAfterPass.swaps_per_gate
    /\ consecutive_swaps' = consecutive_swaps + 1
    /\ iteration' = iteration + 1
    /\ pc' = "done"
    /\ final_embedding' = embedding
    /\ result' = Ok(out')
    /\ UNCHANGED <<embedding, executed, logical_swap_count>>
    /\ UNCHANGED sabreUnused

\* the loop ends by its condition (or an empty front layer); finalization
\* and return
SabreReturn ==
    /\ alg = "sabre" /\ pc = "loop"
    /\ ~SabreIterates
    /\ out' = out \o Unexecuted(executed)
    /\ pc' = "done"
    /\ final_embedding' = embedding
    /\ result' = Ok(out')
    /\ UNCHANGED <<embedding, executed, swaps_per_gate, iteration,
                   consecutive_swaps, logical_swap_count>>
    /\ UNCHANGED sabreUnused

NextSabre ==
    \/ SabreExecute /\ UNCHANGED <<normVars, routeInputs>>
    \/ SabreSwap /\ UNCHANGED <<normVars, routeInputs>>
    \/ SabreRandomSwap /\ UNCHANGED <<normVars, routeInputs>>
    \/ SabreGiveUp /\ UNCHANGED <<normVars, routeInputs>>
    \/ SabreReturn /\ UNCHANGED <<normVars, routeInputs>>

SpecSabre == InitSabre /\ [][NextSabre]_vars

\* circuits on WideQubits logical qubits: one two-qubit gate, or two
\* two-qubit gates on disjoint pairs, which are in the front layer together
WideCircuits(native) ==
    LET pairs == {e \in (0..(WideQubits - 1)) \X (0..(WideQubits - 1)) : e[1] # e[2]}
        gate(e) == Gate(NativeTwoQubit(native), e, <<>>)
    IN {<<gate(e)>> : e \in pairs}
       \cup {<<gate(ef[1]), gate(ef[2])>> :
               ef \in {x \in pairs \X pairs : Range(x[1]) \cap Range(x[2]) = {}}}

\* the SABRE-style router on circuits that use every qubit of a topology of
\* WideQubits qubits
InitSabreWide ==
    /\ NormIdle
    /\ alg = "sabre"
    /\ numQubits = WideQubits
    /\ coupling_map \in SUBSET {e \in (0..(numQubits - 1)) \X (0..(numQubits - 1)) :
                                   e[1] < e[2]}
    /\ basisGates \in NativeSets
    /\ calibrationData = <<>>
    /\ num_qubits = WideQubits
    /\ operations \in WideCircuits(basisGates)
    /\ max_swaps_per_gate \in 1..MaxBudget
    /\ pc = "loop"
    /\ embedding = IdentityEmbedding(num_qubits)
    /\ physical_pos = <<>> /\ logical_at_physical = <<>>
    /\ out = <<>> /\ op_idx = 0 /\ path = <<>> /\ step = 0
    /\ current_physical = 0 /\ saved = <<>>
    /\ executed = [i \in 1..Len(operations) |-> FALSE]
    /\ swaps_per_gate = [i \in 1..Len(operations) |-> 0]
    /\ iteration = 0 /\ consecutive_swaps = 0
    /\ logical_swap_count = 0 /\ final_embedding = <<>> /\ result = NotCalled

SpecSabreWide == InitSabreWide /\ [][NextSabre]_vars

(***************************************************************************)
(* Calibration-aware router                                                *)
(***************************************************************************)
\* the iteration cap of the main loop
cal_max_iterations == 1000

\* distance_matrix.get(..., 999) of _select_best_swap
cal_unreachable == 999

\* set(tuple(pair) ...) of the coupling map: the pairs as given
cal_build_coupling_set(cm) == cm

\* the same BFS as the SABRE-style router's distance matrix
_build_distance_matrix(adjacency, n) == _build_distance_matrix_fast(adjacency, n)

_build_dependencies(ops) == _build_dependencies_debug(ops)

_get_front_layer(done, dependencies) == _get_front_layer_debug(done, dependencies)

\* quality of a physical qubit in _find_embedding.  The topologies of the
\* model carry no calibration data, so every qubit scores
\* w_readout * 1.0 + w_decoherence * 1.0, counted here as one unit.
physical_quality(p_q) == 1

RECURSIVE FirstBest(_, _, _)
\* the first element of cands[k..] whose quality is strictly greater than
\* that of best (best.phys = -1 stands for None with quality -inf)
FirstBest(cands, k, best) ==
    IF k > Len(cands) THEN best
    ELSE FirstBest(cands, k + 1,
            IF best.phys = -1 \/ physical_quality(cands[k]) > best.quality
            THEN [phys |-> cands[k], quality |-> physical_quality(cands[k])]
            ELSE best)

RECURSIVE SeqSum(_)
SeqSum(xs) == IF xs = <<>> THEN 0 ELSE Head(xs) + SeqSum(Tail(xs))

RECURSIVE Concat(_)
Concat(seqs) == IF seqs = <<>> THEN <<>> ELSE Head(seqs) \o Concat(Tail(seqs))

RECURSIVE grow_cluster(_, _, _, _)
\* the loop "for log_q in range(1, num_logical)" of _find_embedding from
\* log_q on; candidate maps the logical qubits assigned so far
grow_cluster(candidate, log_q, num_logical, adjacency) ==
    IF log_q > num_logical - 1 THEN candidate
    ELSE LET visited_physical == {candidate[l] : l \in DOMAIN candidate}
             unvisited(assigned_log_q) ==
                 SelectSeq(Ascending(adjacency[candidate[assigned_log_q]]),
                           LAMBDA nb : nb \notin visited_physical)
             cands == Concat([a \in 1..log_q |-> unvisited(a - 1)])
             best_neighbor == FirstBest(cands, 1, [phys |-> -1, quality |-> 0])
         IN IF best_neighbor.phys = -1 THEN candidate
            ELSE grow_cluster(DictSet(candidate, log_q, best_neighbor.phys),
                              log_q + 1, num_logical, adjacency)

RECURSIVE best_cluster(_, _, _, _, _)
\* the loop "for start_qubit in range(topology.numQubits)" from start_qubit
\* on; best is [found, embedding, quality], found = FALSE for None
best_cluster(start_qubit, n, num_logical, adjacency, best) ==
    IF start_qubit > n - 1 THEN best
    ELSE LET embedding_candidate ==
                 grow_cluster([l \in {0} |-> start_qubit], 1, num_logical, adjacency)
             cluster_quality ==
                 SeqSum([k \in 1..num_logical |->
                            physical_quality(embedding_candidate[k - 1])])
         IN best_cluster(start_qubit + 1, n, num_logical, adjacency,
                IF /\ Cardinality(DOMAIN embedding_candidate) = num_logical
                   /\ (~best.found \/ cluster_quality > best.quality)
                THEN [found |-> TRUE, embedding |-> embedding_candidate,
                      quality |-> cluster_quality]
                ELSE best)

\* the initial embedding: the first best connected cluster, or the greedy
\* fallback {i: sorted_physical[i]} (a stable sort of equal qualities)
_find_embedding(num_logical, n, adjacency) ==
    LET best == best_cluster(0, n, num_logical, adjacency,
                             [found |-> FALSE, embedding |-> <<>>, quality |-> 0])
    IN IF ~best.found THEN [i \in 0..(num_logical - 1) |-> i]
       ELSE best.embedding

\* (p0 in adjacency and p1 in adjacency[p0]) or (p1 in adjacency and ...)
CalAdjacent(adjacency, p0, p1) == p1 \in adjacency[p0] \/ p0 \in adjacency[p1]

\* blocked_gates of _select_best_swap, in front-layer order
CalBlockedGates(front_layer, emb, adjacency) ==
    SelectSeq(front_layer,
              LAMBDA idx : /\ Len(operations[idx].qubits) = 2
                           /\ ~CalAdjacent(adjacency, emb[operations[idx].qubits[1]],
                                           emb[operations[idx].qubits[2]]))

\* emb with the physical qubits of the logical qubits a and b exchanged
SwapLogical(emb, a, b) == [emb EXCEPT ![a] = emb[b], ![b] = emb[a]]

RECURSIVE swap_effect(_, _, _, _, _, _, _)
\* the loop over blocked_gates[k..] that scores one simulated swap: stops
\* at the first gate the swap makes adjacent; yields [helps, dist_improvement]
swap_effect(blocked_gates, k, emb, temp_embedding, adjacency, distance_matrix, acc) ==
    IF k > Len(blocked_gates) THEN [helps |-> FALSE, dist_improvement |-> acc]
    ELSE LET q0 == operations[blocked_gates[k]].qubits[1]
             q1 == operations[blocked_gates[k]].qubits[2]
             new_p0 == temp_embedding[q0]
             new_p1 == temp_embedding[q1]
             dist(a, b) == IF <<a, b>> \in DOMAIN distance_matrix
                           THEN distance_matrix[<<a, b>>] ELSE cal_unreachable
         IN IF CalAdjacent(adjacency, new_p0, new_p1)
            THEN [helps |-> TRUE, dist_improvement |-> acc]
            ELSE swap_effect(blocked_gates, k + 1, emb, temp_embedding, adjacency,
                             distance_matrix,
                             acc + dist(emb[q0], emb[q1]) - dist(new_p0, new_p1))

\* the (swap_q0, swap_q1) that _select_best_swap can return, {} for None.
\* possible_physical_swaps is a Python set of tuples, whose iteration order
\* decides between candidates of equal score: any of them can be the one.
\* The score dist_improvement - 10 * 3 * 0.01 (+ 100) is counted in tenths.
_select_best_swap(emb, adjacency, distance_matrix, front_layer) ==
    LET blocked_gates == CalBlockedGates(front_layer, emb, adjacency)
        physical_to_logical == InverseOf(emb)
        candidates ==
            {pp \in (DOMAIN physical_to_logical) \X (DOMAIN physical_to_logical) :
                pp[1] < pp[2] /\ pp[2] \in adjacency[pp[1]]}
        logical(pp) == <<physical_to_logical[pp[1]], physical_to_logical[pp[2]]>>
        effect(pp) == swap_effect(blocked_gates, 1, emb,
                          SwapLogical(emb, logical(pp)[1], logical(pp)[2]),
                          adjacency, distance_matrix, 0)
        score(pp) == 10 * effect(pp).dist_improvement - 3
                     + (IF effect(pp).helps THEN 1000 ELSE 0)
        useful == {pp \in candidates :
                      effect(pp).helps \/ effect(pp).dist_improvement > 0}
        \* the fallback runs when no candidate helps: the scoring loop then
        \* has summed the improvement over every blocked gate
        total(pp) == effect(pp).dist_improvement
    IN IF blocked_gates = <<>> THEN {}
       ELSE IF useful # {}
       THEN {logical(pp) : pp \in {c \in useful : \A d \in useful : score(d) <= score(c)}}
       ELSE {logical(pp) : pp \in {c \in candidates :
                                      \A d \in candidates : total(d) <= total(c)}}

InitCal ==
    /\ NormIdle
    /\ RouterInputs("calibration_aware")
    /\ max_swaps_per_gate \in 1..MaxBudget
    /\ pc = "loop"
    /\ embedding = _find_embedding(num_qubits, numQubits,
                                   _build_adjacency_list(coupling_map))
    /\ physical_pos = <<>> /\ logical_at_physical = <<>>
    /\ out = <<>> /\ op_idx = 0 /\ path = <<>> /\ step = 0
    /\ current_physical = 0 /\ saved = <<>>
    /\ executed = [i \in 1..Len(operations) |-> FALSE]
    /\ swaps_per_gate = [i \in 1..Len(operations) |-> 0]
    /\ iteration = 0 /\ consecutive_swaps = 0
    /\ logical_swap_count = 0 /\ final_embedding = <<>> /\ result = NotCalled

\* variables the calibration-aware router never touches
calUnused == <<physical_pos, logical_at_physical, op_idx, path, step,
               current_physical, saved, consecutive_swaps>>

RECURSIVE cal_execute_pass(_, _, _, _, _, _)
\* "Try to execute gates": the for-loop over front_layer[k..]; st holds out,
\* executed, swaps_per_gate and progress; budget is max_swaps_per_gate
cal_execute_pass(front_layer, k, st, emb, coupling_set, budget) ==
    IF k > Len(front_layer) THEN st
    ELSE LET idx == front_layer[k]
             op == operations[idx]
             rest_of_loop(next) == cal_execute_pass(front_layer, k + 1, next, emb,
                                                    coupling_set, budget)
             done(from, phys_op) ==
                 [from EXCEPT !.out = Append(from.out, phys_op),
                              !.executed = [from.executed EXCEPT ![idx] = TRUE],
                              !.progress = TRUE]
         IN IF st.executed[idx] THEN rest_of_loop(st)
            ELSE IF Len(op.qubits) = 1
            THEN rest_of_loop(done(st, PhysOp(op, <<emb[op.qubits[1]]>>, idx, "gate")))
            ELSE LET p0 == emb[op.qubits[1]]
                     p1 == emb[op.qubits[2]]
                 IN IF Connected(coupling_set, p0, p1)
                    THEN rest_of_loop(done(st, PhysOp(op, <<p0, p1>>, idx, "gate")))
                    ELSE LET blocked == [st EXCEPT !.swaps_per_gate[idx] = @ + 1]
                         IN IF blocked.swaps_per_gate[idx] > budget
                            THEN rest_of_loop(done(blocked,
                                     PhysOp(op, <<p0, p1>>, idx, "forced")))
                            ELSE rest_of_loop(blocked)

\* the loop condition, the iteration cap and the front-layer test
CalIterates ==
    /\ alg = "calibration_aware" /\ pc = "loop"
    /\ ~all(executed) /\ iteration + 1 <= cal_max_iterations
    /\ _get_front_layer(executed, _build_dependencies(operations)) # <<>>

\* the state of one iteration after its execute pass
CalAfterPass ==
    cal_execute_pass(_get_front_layer(executed, _build_dependencies(operations)), 1,
        [out |-> out, executed |-> executed, swaps_per_gate |-> swaps_per_gate,
         progress |-> FALSE],
        embedding, cal_build_coupling_set(coupling_map), max_swaps_per_gate)

\* the swaps _select_best_swap can return in this iteration
CalBestSwaps ==
    LET adjacency == _build_adjacency_list(coupling_map)
    IN _select_best_swap(embedding, adjacency,
                         _build_distance_matrix(adjacency, numQubits),
                         _get_front_layer(executed, _build_dependencies(operations)))

\* "Convert physical qubits back to logical": every op all of whose qubits
\* hold a logical qubit under the final embedding gets those logical qubits
ConvertToLogical(ops, emb) ==
    LET physical_to_logical == InverseOf(emb)
        convert(o) ==
            IF o.qubits # <<>>
               /\ \A k \in 1..Len(o.qubits) : o.qubits[k] \in DOMAIN physical_to_logical
            THEN [o EXCEPT !.qubits = [k \in 1..Len(o.qubits) |->
                                          physical_to_logical[o.qubits[k]]]]
            ELSE o
    IN [i \in 1..Len(ops) |-> convert(ops[i])]

\* the finalization after the loop: the unexecuted ops are appended as-is,
\* the qubits are converted, and the circuit and the embedding are returned
CalFinish(ops, done) ==
    /\ out' = ConvertToLogical(ops \o Unexecuted(done), embedding)
    /\ pc' = "done"
    /\ final_embedding' = embedding
    /\ result' = Ok(out')

\* an iteration in which at least one gate was executed (or force-executed)
CalExecute ==
    /\ CalIterates
    /\ CalAfterPass.progress
    /\ out' = CalAfterPass.out
    /\ executed' = CalAfterPass.executed
    /\ swaps_per_gate' = CalAfterPass.swaps_per_gate
    /\ iteration' = iteration + 1
    /\ UNCHANGED <<pc, embedding, logical_swap_count, final_embedding, result>>
    /\ UNCHANGED calUnused

\* an iteration without progress that inserts a SWAP as three cx on the
\* physical qubits of the chosen pair
CalSwap ==
    /\ CalIterates
    /\ ~CalAfterPass.progress
    /\ \E best_swap \in CalBestSwaps :
          LET swap_q0 == best_swap[1]
              swap_q1 == best_swap[2]
              p0 == embedding[swap_q0]
              p1 == embedding[swap_q1]
          IN /\ out' = out \o <<InsertedOp("cx", <<p0, p1>>, <<>>, <<p0, p1>>, 1),
                                InsertedOp("cx", <<p1, p0>>, <<>>, <<p0, p1>>, 2),
                                InsertedOp("cx", <<p0, p1>>, <<>>, <<p0, p1>>, 3)>>
             /\ embedding' = SwapLogical(embedding, swap_q0, swap_q1)
    /\ logical_swap_count' = logical_swap_count + 1
    /\ swaps_per_gate' = CalAfterPass.swaps_per_gate
    /\ iteration' = iteration + 1
    /\ UNCHANGED <<pc, executed, final_embedding, result>>
    /\ UNCHANGED calUnused

\* an iteration without progress for which no SWAP is found: break, then
\* the finalization
CalGiveUp ==
    /\ CalIterates
    /\ ~CalAfterPass.progress
    /\ CalBestSwaps = {}
    /\ CalFinish(out, executed)
    /\ swaps_per_gate' = CalAfterPass.swaps_per_gate
    /\ iteration' = iteration + 1
    /\ UNCHANGED <<embedding, executed, logical_swap_count>>
    /\ UNCHANGED calUnused

\* the loop ends (all executed, iteration cap, empty front layer); then the
\* finalization
CalReturn ==
    /\ alg = "calibration_aware" /\ pc = "loop"
    /\ ~CalIterates
    /\ CalFinish(out, executed)
    /\ iteration' = IF all(executed) THEN iteration ELSE iteration + 1
    /\ UNCHANGED <<embedding, executed, swaps_per_gate, logical_swap_count>>
    /\ UNCHANGED calUnused

NextCal ==
    \/ CalExecute /\ UNCHANGED <<normVars, routeInputs>>
    \/ CalSwap /\ UNCHANGED <<normVars, routeInputs>>
    \/ CalGiveUp /\ UNCHANGED <<normVars, routeInputs>>
    \/ CalReturn /\ UNCHANGED <<normVars, routeInputs>>

SpecCal == InitCal /\ [][NextCal]_vars

(***************************************************************************)
(* The routers side by side                                                *)
(***************************************************************************)
\* the two routers that bound their work by max_swaps_per_gate
InitBudgeted == InitSabre \/ InitCal

NextBudgeted == NextSabre \/ NextCal

SpecBudgeted == InitBudgeted /\ [][NextBudgeted]_vars

\* before the call of a router: nothing has run
InitCall == NormIdle /\ RouteIdle

\* the call of sabre_transpiler or calibration_aware_transpiler on some
\* circuit and topology: the state at the top of its main loop, as in
\* InitSabre and InitCal
CallBudgeted ==
    /\ pc = "idle" /\ alg = None
    /\ \E a \in {"sabre", "calibration_aware"}, n \in 1..NumPhys,
          native \in NativeSets, budget \in 1..MaxBudget :
       \E cm \in SUBSET {e \in (0..(n - 1)) \X (0..(n - 1)) : e[1] < e[2]},
          nq \in 1..Min(MaxLogical, n) :
       \E ops \in SeqsUpTo(RouterOps(nq, native), MaxOps) :
          /\ alg' = a /\ numQubits' = n /\ coupling_map' = cm
          /\ basisGates' = native /\ num_qubits' = nq /\ operations' = ops
          /\ calibrationData' = <<>>
          /\ max_swaps_per_gate' = budget
          /\ embedding' = IF a = "sabre" THEN IdentityEmbedding(nq)
                          ELSE _find_embedding(nq, n, _build_adjacency_list(cm))
          /\ executed' = [i \in 1..Len(ops) |-> FALSE]
          /\ swaps_per_gate' = [i \in 1..Len(ops) |-> 0]
    /\ pc' = "loop"
    /\ UNCHANGED <<normVars, physical_pos, logical_at_physical, out, op_idx,
                   path, step, current_physical, saved, iteration,
                   consecutive_swaps, logical_swap_count, final_embedding,
                   result>>

NextCalled == CallBudgeted \/ NextBudgeted

\* the program goes on: the call is made, and the main loop of the router
\* begins its next iteration or is left
GoesOn ==
    /\ pc \in {"idle", "loop"}
    /\ pc' \in {"loop", "done", "failed"}
    /\ iteration' \in {iteration, iteration + 1}
    /\ pc' # pc \/ iteration' # iteration

\* the call and the run of a router that is not stopped from outside
SpecCalled == InitCall /\ [][NextCalled]_vars /\ WF_<<pc, iteration>>(GoesOn)

\* any of the four routers
InitRouters == InitNaive \/ InitDynamic \/ InitSabre \/ InitCal

NextRouters == NextNaive \/ NextDynamic \/ NextSabre \/ NextCal

SpecRouters == InitRouters /\ [][NextRouters]_vars

\* every stage of the pipeline: a call of the normaliser and the basis
\* mapper, or a run of one of the routers
InitPipeline == InitNorm \/ InitRouters

NextPipeline ==
    \/ alg = None /\ NextNorm
    \/ NextRouters

SpecPipeline == InitPipeline /\ [][NextPipeline]_vars

(***************************************************************************)
(* The endpoint POST /transpile/run (run_transpilation)                    *)
(***************************************************************************)
\* variant of the topology validation that accepts every circuit
topology_too_small_never(qc_num_qubits, topology_numQubits) == FALSE

\* "if qc.num_qubits > request.topology.numQubits"
topology_too_small(qc_num_qubits, topology_numQubits) ==
    qc_num_qubits > topology_numQubits

\* algorithms the endpoint runs, and algorithms it answers with
\* "not yet implemented"
Implemented == {"naive", "sabre", "dynamic"}
NotYetImplemented == {"stochastic"}

\* raise HTTPException(status_code=status, ...)
HTTPException(status) == Raise("HTTPException", status)

\* a request for a stored circuit (num_qubits, operations) and a topology;
\* the circuit may need more qubits than the topology has.  sabre_transpiler
\* is called with its default budget, scaled to MaxBudget.
InitEndpoint ==
    /\ NormIdle
    /\ alg \in Implemented \cup NotYetImplemented
    /\ numQubits \in 1..NumPhys
    /\ coupling_map \in SUBSET {e \in (0..(numQubits - 1)) \X (0..(numQubits - 1)) :
                                   e[1] < e[2]}
    /\ basisGates \in NativeSets
    /\ calibrationData = <<>>
    /\ num_qubits \in 1..MaxLogical
    /\ operations \in SeqsUpTo(RouterOps(num_qubits, basisGates), MaxOps)
    /\ max_swaps_per_gate = IF alg = "sabre" THEN MaxBudget ELSE 0
    /\ pc = "request"
    /\ embedding = <<>> /\ physical_pos = <<>> /\ logical_at_physical = <<>>
    /\ out = <<>> /\ op_idx = 0 /\ path = <<>> /\ step = 0
    /\ current_physical = 0 /\ saved = <<>> /\ executed = <<>>
    /\ swaps_per_gate = <<>> /\ iteration = 0 /\ consecutive_swaps = 0
    /\ logical_swap_count = 0 /\ final_embedding = <<>> /\ result = NotCalled

\* "Validate topology": the request is answered with 400 before any router
\* is imported or called
EndpointReject ==
    /\ pc = "request"
    /\ topology_too_small(num_qubits, numQubits)
    /\ pc' = "responded"
    /\ result' = HTTPException(400)
    /\ UNCHANGED <<embedding, physical_pos, logical_at_physical, out, op_idx,
                   path, step, current_physical, saved, executed,
                   swaps_per_gate, iteration, consecutive_swaps,
                   logical_swap_count, final_embedding>>

\* the call of naive_transpiler / sabre_transpiler / dynamic_transpiler, up
\* to the first statement of the router that can fail or loop
EndpointDispatch ==
    /\ pc = "request"
    /\ ~topology_too_small(num_qubits, numQubits)
    /\ alg \in Implemented
    /\ pc' = IF alg = "naive" THEN "start" ELSE "loop"
    /\ embedding' = IdentityEmbedding(num_qubits)
    /\ physical_pos' = IF alg = "sabre" THEN <<>> ELSE IdentityEmbedding(num_qubits)
    /\ logical_at_physical' =
          IF alg = "sabre" THEN <<>> ELSE InverseOf(IdentityEmbedding(num_qubits))
    /\ op_idx' = IF alg = "sabre" THEN 0 ELSE 1
    /\ executed' = IF alg = "sabre" THEN [i \in 1..Len(operations) |-> FALSE] ELSE <<>>
    /\ swaps_per_gate' = IF alg = "sabre" THEN [i \in 1..Len(operations) |-> 0] ELSE <<>>
    /\ UNCHANGED <<out, path, step, current_physical, saved, iteration,
                   consecutive_swaps, logical_swap_count, final_embedding,
                   result>>

\* HTTPException(501) raised inside the try block is caught by
\* "except Exception" and answered as 500
EndpointNotImplemented ==
    /\ pc = "request"
    /\ ~topology_too_small(num_qubits, numQubits)
    /\ alg \in NotYetImplemented
    /\ pc' = "responded"
    /\ result' = HTTPException(500)
    /\ UNCHANGED <<embedding, physical_pos, logical_at_physical, out, op_idx,
                   path, step, current_physical, saved, executed,
                   swaps_per_gate, iteration, consecutive_swaps,
                   logical_swap_count, final_embedding>>

\* the router raised: "except ValueError" answers 400, "except Exception" 500
EndpointError ==
    /\ pc = "failed"
    /\ pc' = "responded"
    /\ result' = HTTPException(IF result.err = "ValueError" THEN 400 ELSE 500)
    /\ UNCHANGED <<embedding, physical_pos, logical_at_physical, out, op_idx,
                   path, step, current_physical, saved, executed,
                   swaps_per_gate, iteration, consecutive_swaps,
                   logical_swap_count, final_embedding>>

\* the router returned: parsed_circuits[transpiled_circuit_id] = transpiled_qc
EndpointStore ==
    /\ pc = "done"
    /\ pc' = "stored"
    /\ UNCHANGED <<embedding, physical_pos, logical_at_physical, out, op_idx,
                   path, step, current_physical, saved, executed,
                   swaps_per_gate, iteration, consecutive_swaps,
                   logical_swap_count, final_embedding, result>>

NextEndpoint ==
    \/ EndpointReject /\ UNCHANGED <<normVars, routeInputs>>
    \/ EndpointDispatch /\ UNCHANGED <<normVars, routeInputs>>
    \/ EndpointNotImplemented /\ UNCHANGED <<normVars, routeInputs>>
    \/ EndpointError /\ UNCHANGED <<normVars, routeInputs>>
    \/ EndpointStore /\ UNCHANGED <<normVars, routeInputs>>
    \/ NextNaive
    \/ NextSabre
    \/ NextDynamic

SpecEndpoint == InitEndpoint /\ [][NextEndpoint]_vars

(***************************************************************************)
(* Properties of the routers                                               *)
(***************************************************************************)
\* the pair <<a, b>> is an edge of the (undirected) coupling graph
IsEdge(a, b) == <<a, b>> \in coupling_map \/ <<b, a>> \in coupling_map

\* every two-qubit op of ops acts on an edge of the coupling graph
TwoQubitOpsOnEdges(ops) ==
    \A i \in 1..Len(ops) :
        Len(ops[i].qubits) = 2 => IsEdge(ops[i].qubits[1], ops[i].qubits[2])

\* every qubit index of ops is a physical qubit of the topology
IndicesInRange(ops) ==
    \A i \in 1..Len(ops) : \A k \in 1..Len(ops[i].qubits) :
        ops[i].qubits[k] \in 0..(numQubits - 1)

\* C3: when dynamic_transpiler returns (circuit of one- and two-qubit ops,
\* num_qubits <= topology.numQubits), every two-qubit op of the output, the
\* routed gates and the gates of each decomposed SWAP alike, acts on an edge
\* of the coupling graph, and every qubit index of the output is in
\* [0, topology.numQubits).
C3_DynamicOnEdgesInRange ==
    (alg = "dynamic" /\ pc = "done") =>
        /\ TwoQubitOpsOnEdges(result.ops)
        /\ IndicesInRange(result.ops)

\* dynamic_transpiler returned a circuit in which a gate was routed with two
\* SWAPs and a later gate was emitted on the moved qubits
C3_Witness ==
    /\ alg = "dynamic" /\ pc = "done"
    /\ logical_swap_count = 2
    /\ Len(operations) = 2
    /\ Len(result.ops) = 44
    /\ result.ops[43].src = 1
    /\ result.ops[44].src = 2
    /\ Len(result.ops[44].qubits) = 2
    /\ result.ops[44].qubits # operations[2].qubits

\* the placement (logical -> physical) after the contents of the physical
\* qubits a and b have been exchanged
Exchange(place, a, b) ==
    [l \in DOMAIN place |->
        IF place[l] = a THEN b ELSE IF place[l] = b THEN a ELSE place[l]]

\* the physical qubits that hold the logical operands qs under place
HeldAt(place, qs) == [k \in 1..Len(qs) |-> place[qs[k]]]

RECURSIVE Replay(_, _, _)
\* replays ops[i..] from the placement place: an emitted SWAP exchanges the
\* contents of its pair; a gate derived from an input op must act on the
\* physical qubits that hold its logical operands.  Yields whether every
\* gate did, and the placement after the last op.
Replay(ops, i, place) ==
    IF i > Len(ops) THEN [ok |-> TRUE, place |-> place]
    ELSE LET o == ops[i]
         IN IF o.how = "swap"
            THEN Replay(ops, i + 1,
                        IF o.part = 1 THEN Exchange(place, o.pair[1], o.pair[2])
                        ELSE place)
            ELSE IF o.qubits = HeldAt(place, operations[o.src].qubits)
                 THEN Replay(ops, i + 1, place)
                 ELSE [ok |-> FALSE, place |-> place]

\* C6: dynamic router, permutation-level equivalence.  Starting from the
\* identity placement and replaying only the SWAPs emitted into the output,
\* every emitted gate derived from an input op on logical qubits (q0[, q1])
\* acts on the physical qubits that hold q0[, q1] at that point, and the
\* placement after the last op equals the returned final_embedding; also
\* when the path crosses unoccupied physical qubits.
C6_DynamicReplayMatches ==
    (alg = "dynamic" /\ pc = "done") =>
        LET r == Replay(result.ops, 1, IdentityEmbedding(num_qubits))
        IN r.ok /\ r.place = final_embedding

\* C5: naive router: in the returned circuit, read as a physical-qubit
\* circuit, every two-qubit op (each routed gate and each inserted SWAP) acts
\* on a pair of qubit indices that is an edge of the coupling graph, also for
\* gates whose endpoints were not adjacent under the identity embedding.
C5_NaiveOnEdges ==
    (alg = "naive" /\ pc = "done") => TwoQubitOpsOnEdges(result.ops)

\* C4: SABRE-style and calibration-aware routers: in the circuit each of
\* them returns, every two-qubit op acts on a pair of qubit indices that is
\* an edge of the coupling graph, for every input (also when a gate stays
\* blocked for more iterations than the per-gate SWAP budget).
C4_BudgetedOnEdges ==
    (alg \in {"sabre", "calibration_aware"} /\ pc = "done") =>
        TwoQubitOpsOnEdges(result.ops)

\* C8: SABRE-style and calibration-aware routers: once a blocked two-qubit
\* gate has exceeded max_swaps_per_gate the router has failed with an error,
\* and it never returns a circuit in which a gate was force-executed or in
\* which unexecuted ops were appended as-is.
C8_BudgetExceededFails ==
    alg \in {"sabre", "calibration_aware"} =>
        /\ (\E i \in 1..Len(swaps_per_gate) : swaps_per_gate[i] > max_swaps_per_gate)
              => pc = "failed"
        /\ pc = "done" =>
              \A i \in 1..Len(result.ops) :
                  result.ops[i].how \notin {"forced", "appended"}

\* C9: when swap is not in the topology's native gate set, no operation
\* named swap is in the circuit a router (naive, SABRE-style, dynamic,
\* calibration-aware) returns.
C9_NoRawSwap ==
    (pc = "done" /\ "swap" \notin {Lower(g) : g \in basisGates}) =>
        \A i \in 1..Len(result.ops) : Lower(result.ops[i].name) # "swap"

\* the expansion of SWAP(a, b) the specification asks for: cx a,b; cx b,a;
\* cx a,b when cx is native, else each cx as the basis mapper decomposes it;
\* as a sequence of <<name, qubits>>
ExpectedSwap(a, b, native) ==
    LET cxs == <<Gate("cx", <<a, b>>, <<>>), Gate("cx", <<b, a>>, <<>>),
                 Gate("cx", <<a, b>>, <<>>)>>
        expanded == IF "cx" \in native THEN cxs ELSE map_to_basis(cxs, native).ops
    IN [k \in 1..Len(expanded) |-> <<expanded[k].name, expanded[k].qubits>>]

\* the operations ops[i..] start with the sequence want of <<name, qubits>>
StartsWith(ops, i, want) ==
    /\ i + Len(want) - 1 <= Len(ops)
    /\ \A k \in 1..Len(want) :
          <<ops[i + k - 1].name, ops[i + k - 1].qubits>> = want[k]

\* C10: every SWAP a router inserts on the physical pair (a, b) is emitted
\* in place as cx a,b; cx b,a; cx a,b when cx is native, and otherwise with
\* each cx replaced by its basis-mapper decomposition; so every
\* routing-inserted operation has a name in the topology's native gate set.
C10_SwapExpandedNatively ==
    pc = "done" =>
        \A i \in 1..Len(result.ops) :
            result.ops[i].how = "swap" =>
                /\ Lower(result.ops[i].name) \in {Lower(g) : g \in basisGates}
                /\ result.ops[i].part = 1 =>
                      StartsWith(result.ops, i,
                                 ExpectedSwap(result.ops[i].pair[1],
                                              result.ops[i].pair[2], basisGates))


(***************************************************************************)
(* Properties of the embedding                                             *)
(***************************************************************************)
\* the logical -> physical map a router works on
CurrentEmbedding ==
    IF alg \in {"naive", "dynamic"} THEN physical_pos ELSE embedding

\* e is injective, its domain is [0, qc.num_qubits) and its image lies in
\* [0, topology.numQubits)
IsPlacement(e) ==
    /\ DOMAIN e = 0..(num_qubits - 1)
    /\ \A l1, l2 \in DOMAIN e : e[l1] = e[l2] => l1 = l2
    /\ \A l \in DOMAIN e : e[l] \in 0..(numQubits - 1)

\* C11: for every router, at every point of routing and on return, the
\* logical -> physical embedding is injective, its domain is exactly
\* [0, qc.num_qubits) and its image lies inside [0, topology.numQubits); in
\* the dynamic router the physical -> logical view is its exact inverse
\* after every SWAP and every empty-slot move.
C11_EmbeddingIsPlacement ==
    /\ IsPlacement(CurrentEmbedding)
    /\ pc = "done" => IsPlacement(final_embedding)
    /\ alg = "dynamic" => logical_at_physical = InverseOf(physical_pos)

\* the dynamic router returned after a walk that moved a qubit onto an
\* empty physical qubit and exchanged it with another one by a SWAP
C11_Witness ==
    /\ alg = "dynamic" /\ pc = "done"
    /\ logical_swap_count >= 1
    /\ \E l \in DOMAIN final_embedding : final_embedding[l] >= num_qubits


(***************************************************************************)
(* Properties of the whole pipeline                                        *)
(***************************************************************************)
\* what normalize_circuit adds to the new circuit for the operation op
NormalisedFrom(op) ==
    IF op.name \in CONTROL_FLOW_OPS THEN <<op>>
    ELSE normalize_operation_recursive(op).ops

\* what map_to_basis adds to the new circuit for the operation op
MappedFrom(op, target) ==
    IF Lower(op.name) \in CONTROL_FLOW_OPS THEN <<op>>
    ELSE map_operation(op, {Lower(g) : g \in target}).ops

\* every operation of ops carries the metadata, the condition and the clbits
\* of the operation source
CarriesOver(ops, source) ==
    \A k \in 1..Len(ops) :
        /\ ops[k].metadata = source.metadata
        /\ ops[k].condition = source.condition
        /\ ops[k].clbits = source.clbits

\* C12: metadata preservation.  The output of the normaliser and of the
\* basis mapper is the concatenation of the operations derived from each
\* input operation, and each of them carries the metadata, the condition and
\* the clbits of the operation it derives from; so does every operation of a
\* router's output that derives from an input operation.
C12_MetadataPreserved ==
    /\ Returned(normalized) =>
          /\ normalized.ops =
                Concat([i \in 1..Len(circuit) |-> NormalisedFrom(circuit[i])])
          /\ \A i \in 1..Len(circuit) :
                CarriesOver(NormalisedFrom(circuit[i]), circuit[i])
    /\ Returned(mapped) =>
          /\ mapped.ops =
                Concat([i \in 1..Len(circuit) |->
                           MappedFrom(circuit[i], target_basis)])
          /\ \A i \in 1..Len(circuit) :
                CarriesOver(MappedFrom(circuit[i], target_basis), circuit[i])
    /\ pc = "done" =>
          \A k \in 1..Len(result.ops) :
              result.ops[k].src >= 1 =>
                  CarriesOver(<<result.ops[k]>>, operations[result.ops[k].src])

\* a conditioned swap that carries metadata, next to a plain gate, has been
\* normalised and mapped
C12_Witness ==
    /\ Returned(normalized) /\ Returned(mapped)
    /\ Len(circuit) = 2
    /\ circuit[1] = Tagged("swap", <<1, 0>>, <<>>)
    /\ circuit[2].metadata = "{}"
    /\ Len(normalized.ops) > 3


\* the gate op can neither be copied nor rewritten under the target set
Unmappable(op, target) ==
    LET basis == {Lower(g) : g \in target}
    IN /\ Lower(op.name) \notin CONTROL_FLOW_OPS
       /\ Lower(op.name) \notin basis
       /\ \A needs \in decomposition_needs(Lower(op.name)) : ~(needs \subseteq basis)

\* C13: map_to_basis fails with the unsupported-decomposition error
\* (NotImplementedError) and returns no circuit whenever the input holds a
\* non-control-flow gate that is not in the target set and that no
\* decomposition rule rewrites under the target set; with an empty target
\* set that is every gate.
C13_UnmappableRejected ==
    (Called(mapped) /\ \E i \in 1..Len(circuit) : Unmappable(circuit[i], target_basis))
        => (mapped.err = "NotImplementedError" /\ mapped.ops = <<>>)

\* map_to_basis was called with {sx} on x; h: x is rewritten, h has no rule
\* without rz, and the call raised
C13_Witness ==
    /\ Called(mapped)
    /\ target_basis = {"sx"}
    /\ Len(circuit) = 2
    /\ circuit[1].name = "x" /\ circuit[2].name = "h"
    /\ mapped.err = "NotImplementedError"


\* the name of op is not in the canonical set and has no rewrite rule
UnsupportedGate(op) ==
    /\ op.name \notin CONTROL_FLOW_OPS
    /\ Lower(op.name) \notin CanonicalSet \cup {"u3", "swap"}

\* the operations before circuit[i] are normalised without an error
NormalisedUpTo(i) ==
    \A j \in 1..(i - 1) :
        \/ circuit[j].name \in CONTROL_FLOW_OPS
        \/ normalize_operation_recursive(circuit[j]).err = None

\* C14: normalising a circuit that holds an operation whose name is not
\* canonical and has no rewrite rule (e.g. toffoli) fails with an
\* unsupported-gate error that names the gate and the position of the
\* operation in the circuit; no normalised circuit is returned.
C14_UnsupportedGateNamed ==
    \A i \in 1..Len(circuit) :
        (Called(normalized) /\ UnsupportedGate(circuit[i]) /\ NormalisedUpTo(i)) =>
            /\ normalized.err = "NotImplementedError"
            /\ normalized.ops = <<>>
            /\ normalized.gate = circuit[i].name
            /\ normalized.position # None
            /\ normalized.position \in {i - 1, i}


(***************************************************************************)
(* Properties of the routers: failures                                     *)
(***************************************************************************)
RECURSIVE ReachableFrom(_)
\* the physical qubits joined to a qubit of S by a path of the coupling graph
ReachableFrom(S) ==
    LET more == S \cup {v \in 0..(numQubits - 1) : \E u \in S : IsEdge(u, v)}
    IN IF more = S THEN S ELSE ReachableFrom(more)

\* the physical endpoints of the two-qubit gate op lie in different
\* connected components of the coupling graph
EndpointsDisconnected(op) ==
    /\ Len(op.qubits) = 2
    /\ CurrentEmbedding[op.qubits[2]] \notin ReachableFrom({CurrentEmbedding[op.qubits[1]]})

\* C15: for every router, if the physical endpoints of some two-qubit gate
\* lie in different connected components of the coupling graph, the router
\* does not return a circuit: it fails with the routing-failure error
\* (RuntimeError).
C15_DisconnectedFails ==
    (pc \in {"done", "failed"}
        /\ \E i \in 1..Len(operations) : EndpointsDisconnected(operations[i]))
    => (pc = "failed" /\ result.err = "RuntimeError")


\* C16: when the circuit needs more logical qubits than the topology
\* provides (qc.num_qubits > topology.numQubits), a transpilation request
\* with any algorithm is answered with the topology-mismatch error (HTTP
\* 400, a user-input error) before any routing is done: no router runs and
\* no transpiled circuit is produced or stored.
C16_TopologyMismatchRejected ==
    (pc # "idle" /\ num_qubits > numQubits) =>
        /\ pc \in {"request", "responded"}
        /\ pc = "responded" => result = HTTPException(400)
        /\ out = <<>> /\ embedding = <<>> /\ final_embedding = <<>>

\* a request whose circuit needs three qubits on a two-qubit topology has
\* been answered
C16_Witness ==
    /\ pc = "responded"
    /\ num_qubits = 3 /\ numQubits = 2
    /\ alg = "dynamic"
    /\ Len(operations) = 2
    /\ result = HTTPException(400)


\* C17: normaliser passthrough on the canonical set: for a circuit whose
\* operations all have a name in C = {rx, ry, rz, h, s, t, x, y, z, cx, cz},
\* the normaliser succeeds and emits exactly those operations, unchanged
\* (same name, qubits and params).
C17_CanonicalPassthrough ==
    (Called(normalized)
        /\ \A i \in 1..Len(circuit) : Lower(circuit[i].name) \in CanonicalSet)
    => (Returned(normalized) /\ normalized.ops = circuit)


\* name, qubits and params of the operations ops
Shape(ops) == [k \in 1..Len(ops) |-> <<ops[k].name, ops[k].qubits, ops[k].params>>]

\* the rows of the decomposition table for the target set {rz, sx, cz}, as
\* <<name, qubits, params>>
RowsRzSxCz(op) ==
    LET name == Lower(op.name)
        q == op.qubits
        sx(x) == <<"sx", x, <<>>>>
        rz(x, angle) == <<"rz", x, <<angle>>>>
    IN CASE name \in {"rz", "sx", "cz"} -> <<<<op.name, q, op.params>>>>
         [] name = "h" -> <<sx(q), rz(q, "pi/2"), sx(q)>>
         [] name = "x" -> <<sx(q), sx(q)>>
         [] name = "z" -> <<rz(q, "pi")>>
         [] name = "rx" ->
              <<sx(q), rz(q, "pi/2"), sx(q), rz(q, op.params[1]),
                sx(q), rz(q, "pi/2"), sx(q)>>
         [] name = "cx" ->
              <<sx(<<q[2]>>), rz(<<q[2]>>, "pi/2"), sx(<<q[2]>>),
                <<"cz", <<q[1], q[2]>>, <<>>>>,
                sx(<<q[2]>>), rz(<<q[2]>>, "pi/2"), sx(<<q[2]>>)>>

\* C18: basis-mapper rows for the target set {rz, sx, cz}: a gate already
\* in the target set is emitted unchanged; h q becomes sx; rz(pi/2); sx on
\* q, x q becomes sx; sx, z q becomes rz(pi), rx(theta) q becomes sx;
\* rz(pi/2); sx; rz(theta); sx; rz(pi/2); sx, and cx c,t becomes exactly
\* sx t; rz(pi/2) t; sx t; cz c,t; sx t; rz(pi/2) t; sx t, in that order.
C18_RowsRzSxCz ==
    (Called(mapped)
        /\ {Lower(g) : g \in target_basis} = {"rz", "sx", "cz"}
        /\ \A i \in 1..Len(circuit) :
              Lower(circuit[i].name) \in {"rz", "sx", "cz", "h", "x", "z", "rx", "cx"})
    => /\ Returned(mapped)
       /\ Shape(mapped.ops) =
             Concat([i \in 1..Len(circuit) |-> RowsRzSxCz(circuit[i])])

\* rx(theta) q1; cx q0,q1 has been mapped to {rz, sx, cz}
C18_Witness ==
    /\ Returned(mapped)
    /\ target_basis = {"rz", "sx", "cz"}
    /\ Len(circuit) = 2
    /\ circuit[1].name = "rx" /\ circuit[1].qubits = <<1>>
    /\ circuit[2].name = "cx" /\ circuit[2].qubits = <<0, 1>>
    /\ Len(mapped.ops) = 14


\* the rows of the decomposition table that the claim lists: the source
\* gate op has such a row whose target gates are all in basis
ListedRowApplies(op, basis) ==
    LET name == Lower(op.name)
    IN /\ name \notin basis
       /\ \/ name \in {"s", "t"} /\ "rz" \in basis
          \/ name = "x" /\ "rx" \in basis /\ "sx" \notin basis
          \/ name = "ry" /\ {"rx", "rz"} \subseteq basis /\ "sx" \notin basis
          \/ name = "swap" /\ "cx" \in basis

\* the replacement of the listed row, as <<name, qubits, params>>
ListedRow(op) ==
    LET name == Lower(op.name)
        q == op.qubits
    IN CASE name = "s" -> <<<<"rz", q, <<"pi/2">>>>>>
         [] name = "t" -> <<<<"rz", q, <<"pi/4">>>>>>
         [] name = "x" -> <<<<"rx", q, <<"pi">>>>>>
         [] name = "ry" ->
              <<<<"rz", q, <<"-pi/2">>>>, <<"rx", q, <<op.params[1]>>>>,
                <<"rz", q, <<"pi/2">>>>>>
         [] name = "swap" ->
              <<<<"cx", <<q[1], q[2]>>, <<>>>>, <<"cx", <<q[2], q[1]>>, <<>>>>,
                <<"cx", <<q[1], q[2]>>, <<>>>>>>

\* C19: decomposition-table completeness: map_to_basis does not reject a
\* source gate for which the table lists a row whose target gates are all
\* in the target set, and emits that row's replacement: s -> rz(pi/2) and
\* t -> rz(pi/4) given {rz}; x -> rx(pi) given {rx} without sx;
\* ry(theta) -> rz(-pi/2); rx(theta); rz(pi/2) given {rx, rz} without sx;
\* swap q0,q1 -> cx q0,q1; cx q1,q0; cx q0,q1 given {cx}.
C19_ListedRowsEmitted ==
    LET basis == {Lower(g) : g \in target_basis}
    IN (Called(mapped)
          /\ \A i \in 1..Len(circuit) : ListedRowApplies(circuit[i], basis))
       => /\ Returned(mapped)
          /\ Shape(mapped.ops) =
                Concat([i \in 1..Len(circuit) |-> ListedRow(circuit[i])])


(***************************************************************************)
(* Depth                                                                   *)
(***************************************************************************)
\* the operations among ops[i], i \in rest, that no earlier one of them
\* shares a qubit with: the sources of the qubit-usage DAG restricted to rest
front_layer(ops, rest) ==
    {i \in rest : \A j \in rest :
        j < i => Range(ops[j].qubits) \cap Range(ops[i].qubits) = {}}

RECURSIVE layers(_, _)
\* number of layers peeled off until rest is empty: the number of nodes on
\* the longest path of the qubit-usage DAG restricted to rest
layers(ops, rest) ==
    IF rest = {} THEN 0
    ELSE 1 + layers(ops, rest \ front_layer(ops, rest))

\* QuantumCircuit.calculate_depth(): the longest path through the
\* qubit-usage DAG, each operation a node with an edge from the previous
\* operation on any of its qubits
calculate_depth(ops) == layers(ops, DOMAIN ops)

\* C20: depth monotonicity: for every router and every input on which it
\* returns, the depth cached on the output circuit (the longest path in the
\* per-qubit dependency DAG of its operation list) is greater than or equal
\* to the depth of the input circuit, so depth_increase >= 0.
C20_DepthMonotone ==
    pc = "done" => calculate_depth(result.ops) >= calculate_depth(operations)


(***************************************************************************)
(* Qubit indices of the returned circuit                                   *)
(***************************************************************************)
\* every qubit index of ops is below n
IndicesBelow(ops, n) ==
    \A i \in 1..Len(ops) : \A k \in 1..Len(ops[i].qubits) :
        ops[i].qubits[k] \in 0..(n - 1)

\* C21: circuit index invariant on router outputs: in the circuit a router
\* returns, built as QuantumCircuit(qc.num_qubits, qc.num_clbits), every
\* qubit index referenced by an operation lies in [0, num_qubits), also when
\* the topology has more qubits than the input circuit.
C21_OutputIndicesInCircuit ==
    pc = "done" => IndicesBelow(result.ops, num_qubits)


(***************************************************************************)
(* Naive router: the embedding is stable                                   *)
(***************************************************************************)
\* the mappings are the identity embedding and its inverse
MappingsAreIdentity ==
    /\ physical_pos = IdentityEmbedding(num_qubits)
    /\ logical_at_physical = InverseOf(IdentityEmbedding(num_qubits))

\* C22: naive router stable embedding: after the router finishes processing
\* each input operation the logical->physical map equals the identity
\* embedding again, restored by the reverse SWAP/move chain alone (when the
\* reverse pass ends the map already equals the saved copy, so the
\* mapping-mismatch fallback is never taken), and the returned embedding is
\* the identity; also when the path crosses unoccupied physical qubits.
C22_NaiveEmbeddingStable ==
    alg = "naive" =>
        /\ pc = "loop" => MappingsAreIdentity
        /\ (pc = "reverse" /\ step = 0) =>
              /\ physical_pos = saved.physical_pos
              /\ logical_at_physical = saved.logical_at_physical
              /\ MappingsAreIdentity
        /\ pc = "done" =>
              /\ MappingsAreIdentity
              /\ final_embedding = IdentityEmbedding(num_qubits)

\* the naive router returned after routing a gate along a path that crosses
\* an unoccupied physical qubit, with SWAPs before and after the gate
C22_Witness ==
    /\ alg = "naive" /\ pc = "done"
    /\ logical_swap_count >= 2
    /\ \E k \in 1..Len(path) : path[k] >= num_qubits
    /\ final_embedding = IdentityEmbedding(num_qubits)


(***************************************************************************)
(* Naive router: number of SWAPs                                           *)
(***************************************************************************)
\* the path the naive router takes for op from the identity embedding
NaivePath(op) ==
    _shortest_path(_build_undirected_coupling(coupling_map),
                   op.qubits[1], op.qubits[2])

\* op is a two-qubit gate at distance d >= 2 whose path exists and crosses
\* occupied physical qubits only
RoutedOverOccupied(op) ==
    /\ Len(op.qubits) = 2
    /\ Len(NaivePath(op)) >= 3
    /\ Range(NaivePath(op)) \subseteq 0..(num_qubits - 1)

RECURSIVE SwapsExpected(_, _)
\* 2 * (d - 1) summed over the routed gates of ops[i..]
SwapsExpected(ops, i) ==
    IF i > Len(ops) THEN 0
    ELSE (IF RoutedOverOccupied(ops[i]) THEN 2 * (Len(NaivePath(ops[i])) - 2) ELSE 0)
         + SwapsExpected(ops, i + 1)

\* C23: naive router SWAP count: for a two-qubit gate whose physical
\* endpoints are at distance d >= 2 (all path qubits occupied) the forward
\* chain stops as soon as the endpoints are adjacent: exactly d-1 SWAPs are
\* in the output before the gate and d-1 after it, so the run reports
\* n_swap_gates = 2 * (d - 1) per routed gate (2 for cx q0,q2 on the line
\* 0-1-2).
C23_NaiveSwapCount ==
    alg = "naive" =>
        /\ (/\ pc = "reverse" /\ step = Len(path) - 1 /\ op_idx = 1
            /\ RoutedOverOccupied(operations[1]))
              => Len(out) = (Len(path) - 2) + 1
        /\ (/\ pc = "done"
            /\ \A i \in 1..Len(operations) :
                  Len(operations[i].qubits) = 2 /\ Len(NaivePath(operations[i])) >= 3
                     => RoutedOverOccupied(operations[i]))
              => logical_swap_count = SwapsExpected(operations, 1)


(***************************************************************************)
(* SABRE-style and calibration-aware routers: the front layer              *)
(***************************************************************************)
\* the router is at the top of an iteration of its main loop
InMainLoop == alg \in {"sabre", "calibration_aware"} /\ pc = "loop"

SabreBlockedNow ==
    LET adjacency == _build_adjacency_list(coupling_map)
    IN BlockedGates(_get_front_layer_debug(executed,
                        _build_dependencies_debug(operations)),
                    embedding, build_coupling_set(coupling_map),
                    _build_distance_matrix_fast(adjacency, numQubits))

\* the embedding emb brings the operands of a blocked gate strictly closer
ImprovesSomeBlocked(blocked_gates, emb) ==
    LET distance_matrix ==
            _build_distance_matrix_fast(_build_adjacency_list(coupling_map), numQubits)
    IN \E k \in 1..Len(blocked_gates) :
          distance_get(distance_matrix, emb[blocked_gates[k].q0],
                       emb[blocked_gates[k].q1]) < blocked_gates[k].dist

\* C25: SABRE progress: every iteration of the SABRE-style main loop either
\* executes at least one operation or commits a SWAP that strictly reduces
\* the physical distance of at least one blocked front-layer two-qubit op;
\* no iteration commits a SWAP that improves no blocked op.
C25_SabreProgress ==
    [][(alg = "sabre" /\ pc = "loop" /\ pc' = "loop" /\ iteration' = iteration + 1)
          => \/ \E i \in 1..Len(operations) : ~executed[i] /\ executed'[i]
             \/ /\ logical_swap_count' = logical_swap_count + 1
                /\ ImprovesSomeBlocked(SabreBlockedNow, embedding')]_vars


(***************************************************************************)
(* SABRE-style and calibration-aware routers: termination                  *)
(***************************************************************************)
\* input operation i is in ops: an op emitted for i that has its name,
\* parameters, classical bits, condition and metadata
InputOpPresent(i, ops) ==
    \E k \in 1..Len(ops) :
        /\ ops[k].src = i
        /\ ops[k].how \in {"gate", "forced", "appended"}
        /\ ops[k].name = operations[i].name
        /\ ops[k].params = operations[i].params
        /\ ops[k].clbits = operations[i].clbits
        /\ ops[k].condition = operations[i].condition
        /\ ops[k].metadata = operations[i].metadata

\* the router returned a circuit that holds every input operation
ReturnedWithAllOps ==
    /\ pc = "done"
    /\ Returned(result)
    /\ \A i \in 1..Len(operations) : InputOpPresent(i, result.ops)

\* C26: termination: on every finite input circuit and topology the
\* SABRE-style and calibration-aware routers terminate, and when they return
\* every input operation is present in the output circuit.
C26_TerminatesWithAllOps == <>ReturnedWithAllOps

\* a router returned after it executed one operation in its loop and left
\* the loop with another one unexecuted, which the finalization appended
C26_Witness ==
    /\ ReturnedWithAllOps
    /\ \E i \in 1..Len(operations) : ~executed[i]
    /\ \E j \in 1..Len(operations) : executed[j]


(***************************************************************************)
(* SABRE-style and calibration-aware routers: order of emission            *)
(***************************************************************************)
\* the places of ops at which input operation i was emitted
EmittedAt(i, ops) ==
    {k \in 1..Len(ops) : ops[k].src = i /\ ops[k].how \in {"gate", "forced", "appended"}}

\* the input operations that touch logical qubit q, in input order
TouchingInput(q) ==
    Ascending({i \in 1..Len(operations) : q \in Range(operations[i].qubits)})

\* C27: exactly-once, order-preserving emission: in the output of the
\* SABRE-style and calibration-aware routers each input operation is emitted
\* exactly once, an operation is emitted only after all its predecessors
\* have been emitted, and hence for every qubit q the input operations
\* touching q appear in the output in the same relative order as in the
\* input.
C27_EmittedOnceInOrder ==
    (alg \in {"sabre", "calibration_aware"} /\ pc = "done") =>
        LET dependencies == _build_dependencies_debug(operations)
            place(i) == CHOOSE k \in EmittedAt(i, result.ops) : TRUE
        IN /\ \A i \in 1..Len(operations) : Cardinality(EmittedAt(i, result.ops)) = 1
           /\ \A i \in 1..Len(operations) : \A dep \in dependencies[i] :
                 place(dep) < place(i)
           /\ \A q \in 0..(num_qubits - 1) :
                 LET touching == TouchingInput(q)
                 IN \A a, b \in 1..Len(touching) :
                       a < b => place(touching[a]) < place(touching[b])

\* a router returned two operations on a common qubit, the second of them a
\* gate it had to insert a SWAP for
C27_Witness ==
    /\ alg \in {"sabre", "calibration_aware"} /\ pc = "done"
    /\ Len(operations) = 2
    /\ 1 \in _build_dependencies_debug(operations)[2]
    /\ logical_swap_count > 0
    /\ Cardinality(EmittedAt(2, result.ops)) = 1


(***************************************************************************)
(* SABRE-style router: the SWAP that is committed                          *)
(***************************************************************************)
\* the reduction in physical distance under emb, summed over blocked_gates
TotalReduction(blocked_gates, emb) ==
    LET distance_matrix ==
            _build_distance_matrix_fast(_build_adjacency_list(coupling_map), numQubits)
    IN SeqSum([k \in 1..Len(blocked_gates) |->
                  blocked_gates[k].dist
                  - distance_get(distance_matrix, emb[blocked_gates[k].q0],
                                 emb[blocked_gates[k].q1])])

\* C28: SABRE SWAP selection: the SWAP committed in an iteration is a pair
\* of logical qubits at adjacent physical positions that maximises, over all
\* such candidate pairs, the total reduction in physical distance summed
\* over all blocked front-layer two-qubit ops.
C28_SwapMaximisesTotalReduction ==
    [][(alg = "sabre" /\ pc = "loop" /\ logical_swap_count' = logical_swap_count + 1)
          => LET committed == out'[Len(out')].qubits
                 candidates == possible_swaps(embedding,
                                              _build_adjacency_list(coupling_map))
             IN /\ SortedPair(committed[1], committed[2]) \in candidates
                /\ \A c \in candidates :
                      TotalReduction(SabreBlockedNow,
                                     SwapLogical(embedding, c[1], c[2]))
                         <= TotalReduction(SabreBlockedNow, embedding')]_vars


(***************************************************************************)
(* SABRE-style router: determinism                                         *)
(***************************************************************************)
\* the SWAPs the iteration that starts in this state may commit
SabreCommittable ==
    IF ~SabreNeedsSwap THEN {}
    ELSE IF SabreBestSwap # <<>> THEN {SabreBestSwap}
    ELSE possible_swaps(embedding, _build_adjacency_list(coupling_map))

\* pair a comes before pair b in lexicographic order, or is b
LexLeq(a, b) == a[1] < b[1] \/ (a[1] = b[1] /\ a[2] <= b[2])

\* C29: SABRE determinism: for the same input circuit and topology two runs
\* of the SABRE-style router produce the same output operation sequence and
\* the same final embedding: in no state of the loop is there more than one
\* SWAP the iteration may commit, and the SWAP that is committed is the
\* first in lexicographic order of the swapped logical indices among the
\* equally scored candidates; no choice depends on a random source.
C29_SabreDeterministic ==
    [][(alg = "sabre" /\ pc = "loop")
          => /\ Cardinality(SabreCommittable) <= 1
             /\ logical_swap_count' = logical_swap_count + 1
                   => LET committed == SortedPair(out'[Len(out')].qubits[1],
                                                  out'[Len(out')].qubits[2])
                          candidates == possible_swaps(embedding,
                                            _build_adjacency_list(coupling_map))
                      IN \A c \in candidates :
                            TotalReduction(SabreBlockedNow,
                                           SwapLogical(embedding, c[1], c[2]))
                               = TotalReduction(SabreBlockedNow, embedding')
                            => LexLeq(committed, c)]_vars


(***************************************************************************)
(* Circuit metrics: the gate fidelity of calculate_circuit_metrics         *)
(***************************************************************************)
\* gate errors and fidelities are counted in units of 1 / ErrorScale
ErrorScale == 1000

\* default_error = 0.001 of get_gate_error
default_error == 1

\* qubits of the topology, operations of the transpiled circuit and gate
\* calibrations of the topology in a call of calculate_circuit_metrics
MetricQubits == 3
MaxMetricOps == 2
MaxGateCals == 2

\* GateCalibration(name, qubits, gate_error); gate_error is <<e>>, or <<>>
\* for None
GateCalibration(name, qubits, gate_error) ==
    [name |-> name, qubits |-> qubits, gate_error |-> gate_error]

\* tuple(sorted(qubits)) of one or two qubits
SortedQubits(qubits) ==
    IF Len(qubits) = 2 THEN SortedPair(qubits[1], qubits[2]) ELSE qubits

RECURSIVE build_calibration_maps_from(_, _, _)
\* the loop of build_calibration_maps from gate k on: gate_error_map[key] =
\* gate_cal.gate_error under key (gate_cal.name.lower(), sorted qubits),
\* when gate_cal.gate_error is not None
build_calibration_maps_from(gates, k, gate_error_map) ==
    IF k > Len(gates) THEN gate_error_map
    ELSE LET gate_cal == gates[k]
             key == <<Lower(gate_cal.name), SortedQubits(gate_cal.qubits)>>
         IN build_calibration_maps_from(gates, k + 1,
               IF gate_cal.gate_error # <<>>
               THEN [x \in DOMAIN gate_error_map \cup {key} |->
                        IF x = key THEN gate_cal.gate_error[1]
                        ELSE gate_error_map[x]]
               ELSE gate_error_map)

\* gate_error_map of build_calibration_maps(topology)
build_calibration_maps(gates) == build_calibration_maps_from(gates, 1, <<>>)

\* gate_error_map.get((gate_name.lower(), tuple(sorted(qubits))), default_error)
get_gate_error(gate_name, qubits, gate_error_map) ==
    LET key == <<Lower(gate_name), SortedQubits(qubits)>>
    IN IF key \in DOMAIN gate_error_map THEN gate_error_map[key]
       ELSE default_error

\* physical_qubit = embedding[op.qubits[0]]; the error of the gate on it
track_single_qubit_gate(op, emb, gate_error_map) ==
    get_gate_error(op.name, <<emb[op.qubits[1]]>>, gate_error_map)

\* physical_q0 = embedding[op.qubits[0]], physical_q1 = embedding[op.qubits[1]];
\* the error of the gate on them
track_two_qubit_gate(op, emb, gate_error_map) ==
    get_gate_error(op.name, <<emb[op.qubits[1]], emb[op.qubits[2]]>>,
                   gate_error_map)

\* current_error of one non-measure op in the loop of "Gate Error Metrics":
\* 0.0 unless the op has one or two qubits that are all keys of embedding
current_error(op, emb, gate_error_map) ==
    IF Len(op.qubits) = 1 /\ op.qubits[1] \in DOMAIN emb
    THEN track_single_qubit_gate(op, emb, gate_error_map)
    ELSE IF /\ Len(op.qubits) = 2
            /\ op.qubits[1] \in DOMAIN emb /\ op.qubits[2] \in DOMAIN emb
         THEN track_two_qubit_gate(op, emb, gate_error_map)
         ELSE 0

\* 1.0 as a product of no factors
NoFactors == [product |-> 1, factors |-> 0]

\* fidelity *= (1.0 - error): the value is product / ErrorScale^factors
TimesOneMinus(fidelity, error) ==
    [product |-> fidelity.product * (ErrorScale - error),
     factors |-> fidelity.factors + 1]

RECURSIVE gate_fidelity_from(_, _, _, _, _)
\* the loop over transpiled_qc.operations from op k on: measurements are
\* skipped, every other op multiplies (1.0 - current_error) into
\* gate_fidelity
gate_fidelity_from(ops, k, emb, gate_error_map, gate_fidelity) ==
    IF k > Len(ops) THEN gate_fidelity
    ELSE IF Lower(ops[k].name) \in {"measure", "measure_all"}
         THEN gate_fidelity_from(ops, k + 1, emb, gate_error_map, gate_fidelity)
         ELSE gate_fidelity_from(ops, k + 1, emb, gate_error_map,
                 TimesOneMinus(gate_fidelity,
                               current_error(ops[k], emb, gate_error_map)))

\* metrics["gate_fidelity"] of calculate_circuit_metrics(original_qc,
\* transpiled_qc, logical_swap_count, embedding, topology)
calculate_circuit_metrics(transpiled_ops, emb, gates) ==
    gate_fidelity_from(transpiled_ops, 1, emb, build_calibration_maps(gates),
                       NoFactors)

\* the metrics dictionary a call returned
MetricsReturned(gate_fidelity) ==
    [err |-> None, gate |-> None, position |-> None, ops |-> <<>>,
     gate_fidelity |-> gate_fidelity]

\* operations of a transpiled circuit on the physical qubits 0..(n - 1)
MetricOps(n) ==
    {Gate(name, <<q>>, <<"theta">>) : name \in {"rz", "RZ"}, q \in 0..(n - 1)}
    \cup {Gate("cx", e, <<>>) :
            e \in {x \in (0..(n - 1)) \X (0..(n - 1)) : x[1] # x[2]}}
    \cup {Operation(name, <<0>>, <<0>>, <<>>, None, "{}") :
            name \in {"measure", "MEASURE"}}

\* gate calibrations of a topology of n qubits
GateCals(n) ==
    {GateCalibration("rz", <<0>>, <<2>>), GateCalibration("rz", <<1>>, <<>>),
     GateCalibration("cx", <<0, 1>>, <<3>>),
     GateCalibration("CX", <<n - 1, 0>>, <<5>>)}

\* the embeddings a router returns: one-to-one maps of the logical qubits
\* 0..(k - 1) into the physical qubits 0..(n - 1)
Embeddings(n) ==
    UNION {{f \in [0..(k - 1) -> 0..(n - 1)] :
              \A a, b \in 0..(k - 1) : f[a] = f[b] => a = b} : k \in 1..n}

\* a call calculate_circuit_metrics(qc, transpiled_qc, logical_swap_count,
\* embedding, topology) at the end of a router
InitMetrics ==
    /\ NormIdle
    /\ alg = None
    /\ numQubits = MetricQubits
    /\ coupling_map = {}
    /\ basisGates = {"cx", "rz", "sx", "x", "id"}
    /\ calibrationData \in SeqsUpTo(GateCals(numQubits), MaxGateCals)
    /\ num_qubits \in 1..numQubits
    /\ operations = <<>>
    /\ max_swaps_per_gate = 0
    /\ pc = "metrics"
    /\ embedding \in {f \in Embeddings(numQubits) : DOMAIN f = 0..(num_qubits - 1)}
    /\ physical_pos = <<>> /\ logical_at_physical = <<>>
    /\ out \in SeqsUpTo(MetricOps(numQubits), MaxMetricOps)
    /\ op_idx = 0 /\ path = <<>> /\ step = 0
    /\ current_physical = 0 /\ saved = <<>> /\ executed = <<>>
    /\ swaps_per_gate = <<>> /\ iteration = 0 /\ consecutive_swaps = 0
    /\ logical_swap_count = 0 /\ final_embedding = <<>> /\ result = NotCalled

\* metrics = calculate_circuit_metrics(...)
CalculateMetrics ==
    /\ pc = "metrics"
    /\ pc' = "returned"
    /\ result' = MetricsReturned(
                    calculate_circuit_metrics(out, embedding, calibrationData))
    /\ UNCHANGED <<normVars, routeInputs, embedding, physical_pos,
                   logical_at_physical, out, op_idx, path, step,
                   current_physical, saved, executed, swaps_per_gate,
                   iteration, consecutive_swaps, logical_swap_count,
                   final_embedding>>

NextMetrics == CalculateMetrics

SpecMetrics == InitMetrics /\ [][NextMetrics]_vars

(***************************************************************************)
(* Circuit metrics: the key of the gate-error lookup                       *)
(***************************************************************************)
\* the error read for op under the key (lower-cased name, sorted tuple of
\* the op's own qubits), default_error when the key is absent
OwnQubitsError(op, gate_error_map) ==
    get_gate_error(op.name, op.qubits, gate_error_map)

RECURSIVE OwnQubitsFidelity(_, _, _, _)
\* the product of one factor (1 - e) per non-measure op from op k on, with
\* e read under the op's own qubits
OwnQubitsFidelity(ops, k, gate_error_map, fidelity) ==
    IF k > Len(ops) THEN fidelity
    ELSE IF Lower(ops[k].name) \in {"measure", "measure_all"}
         THEN OwnQubitsFidelity(ops, k + 1, gate_error_map, fidelity)
         ELSE OwnQubitsFidelity(ops, k + 1, gate_error_map,
                 TimesOneMinus(fidelity, OwnQubitsError(ops[k], gate_error_map)))

\* C30: in the metric computation every non-measure operation of the
\* transpiled circuit contributes exactly one factor (1 - e) to
\* gate_fidelity, where e is looked up under the key (lower-cased op name,
\* sorted tuple of the op's own qubit indices as they appear in the
\* transpiled circuit) and is 0.001 when the key is absent: no non-measure
\* op is skipped and the op's qubits are not re-mapped through the embedding
\* before the lookup.
C30_GateErrorLookup ==
    pc = "returned" =>
        result.gate_fidelity =
            OwnQubitsFidelity(out, 1, build_calibration_maps(calibrationData),
                              NoFactors)

=============================================================================
